---- MODULE Spec2Model ----
(***************************************************************************)
(* K-line (candle) cache of K-PredLog: the year-sharded file store         *)
(* (fileStorage), the storage facade, the data-source registry and the     *)
(* KlineManager orchestrator.                                              *)
(*                                                                         *)
(* A candle is a record [time, close]; time is in seconds since the epoch  *)
(* and close stands for the OHLC payload.  A file name is the tuple of the *)
(* parts the code interpolates into the name.  A file's content is the     *)
(* StoredKlineData record.  Times are real epoch seconds, so that the UTC  *)
(* year of a time is computed with the Gregorian calendar as Date does.    *)
(***************************************************************************)
EXTENDS Integers, Sequences, FiniteSets, TLC

VARIABLES
    klineDataDirectoryHandle, \* TRUE when a directory handle is set, FALSE when null
    files,                    \* the directory: file name -> StoredKlineData
    nowYear,                  \* new Date().getUTCFullYear()
    last,                     \* the last completed call: arguments, outcome, remote requests
    inflight                  \* the asynchronous calls suspended at an await, with their locals

vars == <<klineDataDirectoryHandle, files, nowYear, last, inflight>>

----------------------------------------------------------------------------
(* Bounds of the model *)

\* longest candle list handed to write / merge or returned by one remote fetch
MaxLen == 2

\* the long windows of the coverage check lie on the periods 0 .. MaxLongSlot,
\* with at most MaxMissing of those periods lacking a known candle
MaxLongSlot == 11

MaxMissing == 3

\* longest source, symbol or id text handed to buildDataSourceId / parseDataSourceId
MaxIdLen == 2

\* the known candles handed to the coverage check lie on the periods 0 .. MaxSlot
MaxSlot == 6

----------------------------------------------------------------------------
(* Calendar: what new Date(t * 1000).getUTCFullYear() and Date.UTC(y, 0, 1) compute *)

DaySeconds == 24 * 60 * 60

\* days from 1970-01-01 to the first of January of year y (y >= 1970)
DaysBeforeYear(y) ==
    365 * (y - 1970) + ((y - 1969) \div 4) - ((y - 1901) \div 100) + ((y - 1601) \div 400)

\* Math.floor(Date.UTC(year, 0, 1) / 1000)
yearStartSeconds(year) == DaysBeforeYear(year) * DaySeconds

\* the year of a 400-year era in which the era's day doe falls (years start in March)
YearOfEra(doe) ==
    (doe - (doe \div 1460) + (doe \div 36524) - (doe \div 146096)) \div 365

\* the month, counted from March = 0, of day doe of an era whose year of era is yoe
MonthFromMarch(doe, yoe) ==
    (5 * (doe - (365 * yoe + (yoe \div 4) - (yoe \div 100))) + 2) \div 153

\* the calendar year of day doe of era: January and February belong to the next year
YearOfEraDay(era, doe) ==
    YearOfEra(doe) + era * 400 + (IF MonthFromMarch(doe, YearOfEra(doe)) >= 10 THEN 1 ELSE 0)

\* the calendar year of the day z days after 0000-03-01
YearOfDay(z) == YearOfEraDay(z \div 146097, z % 146097)

\* getYearFromTimestamp: the UTC calendar year of an epoch time
getYearFromTimestamp(timestamp) == YearOfDay((timestamp \div DaySeconds) + 719468)

\* startYear .. endYear as an ascending list
YearSpan(startYear, endYear) ==
    [i \in 1..(IF endYear >= startYear THEN endYear - startYear + 1 ELSE 0)
        |-> startYear + i - 1]

\* getYearsInRange
getYearsInRange(startTime, endTime) ==
    YearSpan(getYearFromTimestamp(startTime), getYearFromTimestamp(endTime))

----------------------------------------------------------------------------
(* Sequence helpers standing for Array and Map operations *)

TimesOf(s) == {s[i].time : i \in DOMAIN s}

\* Math.min(...times) and Math.max(...times) of a non-empty list
MinTime(s) == CHOOSE t \in TimesOf(s) : \A u \in TimesOf(s) : t <= u

MaxTime(s) == CHOOSE t \in TimesOf(s) : \A u \in TimesOf(s) : u <= t

\* the UTC years in which the candles of a list fall
YearsOf(candles) == {getYearFromTimestamp(candles[i].time) : i \in DOMAIN candles}

\* the candles of a list that fall in a year, in list order
CandlesOfYear(candles, year) ==
    SelectSeq(candles, LAMBDA c : getYearFromTimestamp(c.time) = year)

RECURSIVE Concat(_)
\* push(...a) over a sequence of arrays
Concat(ss) == IF ss = <<>> THEN <<>> ELSE Head(ss) \o Concat(Tail(ss))

RECURSIVE InsertByTime(_, _)
\* insert c after every element whose time is <= c.time (keeps equal times in order)
InsertByTime(sorted, c) ==
    IF sorted = <<>> THEN <<c>>
    ELSE IF Head(sorted).time <= c.time
         THEN <<Head(sorted)>> \o InsertByTime(Tail(sorted), c)
         ELSE <<c>> \o sorted

RECURSIVE SortByTime(_)
\* Array.prototype.sort((a, b) => timeA - timeB): ascending and stable
SortByTime(s) ==
    IF s = <<>> THEN <<>>
    ELSE InsertByTime(SortByTime(SubSeq(s, 1, Len(s) - 1)), s[Len(s)])

\* the indices at which a time occurs for the first time in s
FirstIndices(s) ==
    SelectSeq([i \in DOMAIN s |-> i], LAMBDA i : \A j \in 1..(i - 1) : s[j].time # s[i].time)

\* the last index of s that holds time t
LastIndexOf(s, t) ==
    CHOOSE i \in DOMAIN s : s[i].time = t /\ \A j \in DOMAIN s : s[j].time = t => j <= i

\* the values of the map in key insertion order, given where each key was first set
MapValuesAt(s, firsts) == [k \in DOMAIN firsts |-> s[LastIndexOf(s, s[firsts[k]].time)]]

\* new Map(); forEach(c => map.set(time, c)); Array.from(map.values()):
\* one entry per time, in the order the times were first set, holding the last value set
CandleMapValues(s) == MapValuesAt(s, FirstIndices(s))

IsSortedByTime(s) == \A i \in 1..(Len(s) - 1) : s[i].time <= s[i + 1].time

HasUniqueTimes(s) == \A i, j \in DOMAIN s : i # j => s[i].time # s[j].time

----------------------------------------------------------------------------
(* fileStorage: the year-sharded store *)

\* an optional number argument that was not passed
Undefined == -1

\* an optional dataSourceId that was not passed
NoDataSourceId == <<>>

\* JavaScript truthiness of an optional number: undefined and 0 are falsy
Truthy(n) == n # Undefined /\ n # 0

\* readKlineDataFromFile returning null
NullData == [present |-> FALSE, candles |-> <<>>]

\* A faulty getFilename that leaves the data-source id out of every name.
\* C23 must tell it from the real one.
getFilename_NoId(timeframe, year, dataSourceId) == <<"kline", timeframe, year>>

\* getFilename: kline_{timeframe}_{dataSourceId}_{year}.json, or the old
\* kline_{timeframe}_{year}.json when dataSourceId is falsy (undefined or '')
getFilename(timeframe, year, dataSourceId) ==
    IF dataSourceId # NoDataSourceId /\ dataSourceId # <<"">>
    THEN <<"kline", timeframe, dataSourceId, year>>
    ELSE <<"kline", timeframe, year>>

\* kline_{timeframe}.json
oldFilename(timeframe) == <<"kline", timeframe>>

\* data.timeframe && Array.isArray(data.candles) && data.lastUpdated
IsStoredKlineData(data) ==
    /\ DOMAIN data = {"timeframe", "candles", "lastUpdated"}
    /\ data.timeframe # ""
    /\ data.lastUpdated # 0

\* one pass of the shard loop: the candles of a file, none when the file is
\* missing or its content is not a StoredKlineData
readShard(fs, filename) ==
    IF filename \in DOMAIN fs /\ IsStoredKlineData(fs[filename])
    THEN fs[filename].candles
    ELSE <<>>

\* A faulty shard loop in which one unreadable or invalid shard ends the whole
\* read with nothing.  C16 must tell it from the real one.
readYears_AllOrNothing(fs, timeframe, years, dataSourceId) ==
    IF \E i \in DOMAIN years :
          /\ getFilename(timeframe, years[i], dataSourceId) \in DOMAIN fs
          /\ ~IsStoredKlineData(fs[getFilename(timeframe, years[i], dataSourceId)])
    THEN <<>>
    ELSE Concat([i \in DOMAIN years |->
                    readShard(fs, getFilename(timeframe, years[i], dataSourceId))])

\* the shard loop: allCandles over the years, in year order
readYears(fs, timeframe, years, dataSourceId) ==
    Concat([i \in DOMAIN years |-> readShard(fs, getFilename(timeframe, years[i], dataSourceId))])

\* null when nothing was read, else the candles deduplicated by time and sorted
readResult(allCandles) ==
    IF allCandles = <<>> THEN NullData
    ELSE [present |-> TRUE, candles |-> SortByTime(CandleMapValues(allCandles))]

\* A faulty readKlineDataFromFile that reads the shards although no directory
\* handle is set.  C17 must tell it from the real one.
readKlineDataFromFile_IgnoresHandle(fs, dir, now, timeframe, startTime, endTime, dataSourceId) ==
    IF /\ (startTime = Undefined \/ endTime = Undefined)
       /\ oldFilename(timeframe) \in DOMAIN fs
       /\ IsStoredKlineData(fs[oldFilename(timeframe)])
    THEN [present |-> TRUE, candles |-> fs[oldFilename(timeframe)].candles]
    ELSE readResult(readYears(fs, timeframe,
                              IF Truthy(startTime) /\ Truthy(endTime)
                              THEN getYearsInRange(startTime, endTime)
                              ELSE <<now>>,
                              dataSourceId))

\* readKlineDataFromFile
readKlineDataFromFile(fs, dir, now, timeframe, startTime, endTime, dataSourceId) ==
    IF ~dir THEN NullData
    ELSE
    IF /\ (startTime = Undefined \/ endTime = Undefined)
       /\ oldFilename(timeframe) \in DOMAIN fs
       /\ IsStoredKlineData(fs[oldFilename(timeframe)])
    THEN [present |-> TRUE, candles |-> fs[oldFilename(timeframe)].candles]
    ELSE readResult(readYears(fs, timeframe,
                              IF Truthy(startTime) /\ Truthy(endTime)
                              THEN getYearsInRange(startTime, endTime)
                              ELSE <<now>>,
                              dataSourceId))

\* the StoredKlineData written for a year: that year's candles, sorted
yearData(timeframe, candles, year, now) ==
    [timeframe   |-> timeframe,
     candles     |-> SortByTime(CandlesOfYear(candles, year)),
     lastUpdated |-> now]

\* the directory after the files of the years in written were written
writeYears(fs, now, timeframe, candles, dataSourceId, written) ==
    [name \in DOMAIN fs \cup {getFilename(timeframe, y, dataSourceId) : y \in written} |->
        IF \E y \in written : getFilename(timeframe, y, dataSourceId) = name
        THEN yearData(timeframe, candles,
                      CHOOSE y \in written : getFilename(timeframe, y, dataSourceId) = name,
                      now)
        ELSE fs[name]]

\* A faulty writeKlineDataToFile that does not group by year: every candle goes
\* to the shard of the first candle's year.  C6 must tell it from the real one.
writeKlineDataToFile_SingleShard(fs, dir, now, timeframe, candles, dataSourceId, failedYears) ==
    IF ~dir \/ candles = <<>> THEN [files |-> fs, threw |-> FALSE]
    ELSE [files |-> [n \in DOMAIN fs \cup
                            {getFilename(timeframe, getYearFromTimestamp(candles[1].time),
                                         dataSourceId)} |->
                        IF n = getFilename(timeframe, getYearFromTimestamp(candles[1].time),
                                           dataSourceId)
                        THEN [timeframe |-> timeframe, candles |-> SortByTime(candles),
                              lastUpdated |-> now]
                        ELSE fs[n]],
          threw |-> FALSE]

\* writeKlineDataToFile.  failedYears: the years whose file write rejects
\* (getFileHandle / createWritable / write / close); the other writes of
\* Promise.all complete.  Returns the directory and whether the call threw.
writeKlineDataToFile(fs, dir, now, timeframe, candles, dataSourceId, failedYears) ==
    IF ~dir THEN [files |-> fs, threw |-> FALSE]
    ELSE IF candles = <<>> THEN [files |-> fs, threw |-> FALSE]
    ELSE [files |-> writeYears(fs, now, timeframe, candles, dataSourceId,
                               YearsOf(candles) \ failedYears),
          threw |-> (YearsOf(candles) \cap failedYears # {})]

\* existingData ? existingData.candles : nothing
existingCandlesOf(existingData) ==
    IF existingData.present THEN existingData.candles ELSE <<>>

\* the candles of the existing shards that merge reads, year by year, each year
\* over [Date.UTC(year, 0, 1), Date.UTC(year + 1, 0, 1) - 1]
mergeExistingCandles(fs, dir, now, timeframe, years, dataSourceId) ==
    Concat([i \in DOMAIN years |->
              existingCandlesOf(
                  readKlineDataFromFile(fs, dir, now, timeframe,
                                        yearStartSeconds(years[i]),
                                        yearStartSeconds(years[i] + 1) - 1,
                                        dataSourceId))])

\* A faulty mergeKlineDataToFile that appends the new candles to the existing
\* ones without the map keyed by time.  C8 must tell it from the real one.
mergeKlineDataToFile_NoMap(fs, dir, now, timeframe, newCandles, dataSourceId, failedYears) ==
    IF newCandles = <<>> THEN [files |-> fs, threw |-> FALSE]
    ELSE writeKlineDataToFile(
             fs, dir, now, timeframe,
             SortByTime(mergeExistingCandles(
                            fs, dir, now, timeframe,
                            getYearsInRange(MinTime(newCandles), MaxTime(newCandles)),
                            dataSourceId)
                        \o newCandles),
             dataSourceId, failedYears)

\* mergeKlineDataToFile: the existing candles of the years from the least to the
\* greatest new time, then the new ones, through the map keyed by time, sorted, written
mergeKlineDataToFile(fs, dir, now, timeframe, newCandles, dataSourceId, failedYears) ==
    IF newCandles = <<>> THEN [files |-> fs, threw |-> FALSE]
    ELSE writeKlineDataToFile(
             fs, dir, now, timeframe,
             SortByTime(CandleMapValues(
                 mergeExistingCandles(
                     fs, dir, now, timeframe,
                     getYearsInRange(MinTime(newCandles), MaxTime(newCandles)),
                     dataSourceId)
                 \o newCandles)),
             dataSourceId, failedYears)

\* clearKlineDataFile: removes the old single file and the names of years 2000..2100
clearKlineDataFile(fs, dir, timeframe, dataSourceId) ==
    IF ~dir THEN fs
    ELSE [name \in DOMAIN fs \ ({oldFilename(timeframe)} \cup
                                {getFilename(timeframe, y, dataSourceId) : y \in 2000..2100})
             |-> fs[name]]

----------------------------------------------------------------------------
(* dataSource: the registry and the remote fetch *)

\* a data-source id is held as the list of its '-'-separated segments (id.split('-'))
\* the sources registered by registerDataSource at module load
dataSourceRegistry == {"binance"}

\* the outcome of one dataSource.fetchKlineData call: the candles, or a thrown error
FetchFailed == [ok |-> FALSE, candles |-> <<>>]

FetchOk(candles) == [ok |-> TRUE, candles |-> candles]

\* A faulty fetchKlineDataBySource that asks the source without looking it up
\* in the registry.  C18 must tell it from the real one.
fetchKlineDataBySource_NoLookup(dataSourceId, response) ==
    IF Len(dataSourceId) < 2
    THEN [ok |-> FALSE, candles |-> <<>>, requested |-> FALSE, error |-> "InvalidIdFormat"]
    ELSE [ok |-> response.ok, candles |-> response.candles, requested |-> TRUE,
          error |-> IF response.ok THEN "" ELSE "RemoteApiError"]

\* fetchKlineDataBySource.  response: what the source's fetchKlineData does when called.
\* requested tells whether the source's fetchKlineData was called at all.
fetchKlineDataBySource(dataSourceId, response) ==
    IF Len(dataSourceId) < 2
    THEN [ok |-> FALSE, candles |-> <<>>, requested |-> FALSE, error |-> "InvalidIdFormat"]
    ELSE IF dataSourceId[1] \notin dataSourceRegistry
    THEN [ok |-> FALSE, candles |-> <<>>, requested |-> FALSE, error |-> "UnknownSource"]
    ELSE [ok |-> response.ok, candles |-> response.candles, requested |-> TRUE,
          error |-> IF response.ok THEN "" ELSE "RemoteApiError"]

----------------------------------------------------------------------------
(* KlineManager *)

\* timeframeSecondsMap[timeframe] || 24 * 60 * 60
timeframeSeconds(timeframe) ==
    CASE timeframe = "1H" -> 60 * 60
      [] timeframe = "4H" -> 4 * 60 * 60
      [] timeframe = "1D" -> 24 * 60 * 60
      [] timeframe = "1W" -> 7 * 24 * 60 * 60
      [] OTHER -> 24 * 60 * 60

\* Math.ceil(a / b) for b > 0
CeilDiv(a, b) == -((-a) \div b)

\* A faulty threshold: 0.5 in place of 0.8.  C11 must tell it from the real one.
CoverageBelowThreshold_Half(actualCount, expectedCount) ==
    IF expectedCount > 0 THEN 10 * actualCount < 5 * expectedCount
    ELSE expectedCount < 0

\* coverageRatio < 0.8 where coverageRatio = actualCount / expectedCount in IEEE
\* arithmetic: x/0 is Infinity or NaN (never below 0.8), x/negative is below 0.8
CoverageBelowThreshold(actualCount, expectedCount) ==
    IF expectedCount > 0 THEN 10 * actualCount < 8 * expectedCount
    ELSE expectedCount < 0

\* filterCandlesByTimeRange
filterCandlesByTimeRange(candles, startTime, endTime) ==
    SelectSeq(candles, LAMBDA c : c.time >= startTime /\ c.time <= endTime)

\* the whole window as the one missing range
wholeRangeMissing(startTime, endTime) ==
    [hasGaps |-> TRUE, missingRanges |-> <<[start |-> startTime, end |-> endTime]>>]

\* A faulty prefix test: startTime <= minTime.  C13 must tell it from the real one.
prefixRange_Inclusive(startTime, endTime, minTime) ==
    IF startTime <= minTime
    THEN <<[start |-> startTime,
            end   |-> IF minTime - 1 < endTime THEN minTime - 1 ELSE endTime]>>
    ELSE <<>>

\* startTime < minTime: the range before the first stored candle
prefixRange(startTime, endTime, minTime) ==
    IF startTime < minTime
    THEN <<[start |-> startTime,
            end   |-> IF minTime - 1 < endTime THEN minTime - 1 ELSE endTime]>>
    ELSE <<>>

\* endTime > maxTime: the range after the last stored candle
suffixRange(startTime, endTime, maxTime) ==
    IF endTime > maxTime
    THEN <<[start |-> IF maxTime + 1 > startTime THEN maxTime + 1 ELSE startTime,
            end   |-> endTime]>>
    ELSE <<>>

\* sortedTimes of the candles, filtered to the window
relevantTimes(candles, startTime, endTime) ==
    SelectSeq([i \in DOMAIN candles |-> SortByTime(candles)[i].time],
              LAMBDA t : t >= startTime /\ t <= endTime)

\* the indices i of times whose distance to the time before exceeds two periods
\* and leaves room for a range between them
gapIndices(times, period) ==
    SelectSeq([i \in 1..(Len(times) - 1) |-> i + 1],
              LAMBDA i : /\ times[i] - times[i - 1] > period * 2
                         /\ times[i - 1] + period < times[i] - period)

\* Faulty internal ranges that run from one known time to the next, without the
\* period on either side.  C12 must tell them from the real ones.
gapRanges_NoMargin(times, period, gapAt) ==
    [k \in DOMAIN gapAt |-> [start |-> times[gapAt[k] - 1], end |-> times[gapAt[k]]]]

\* the missing ranges inside the stored candles
gapRanges(times, period, gapAt) ==
    [k \in DOMAIN gapAt |->
        [start |-> times[gapAt[k] - 1] + period, end |-> times[gapAt[k]] - period]]

internalRanges(times, period) == gapRanges(times, period, gapIndices(times, period))

coverageOf(missingRanges) ==
    [hasGaps |-> missingRanges # <<>>, missingRanges |-> missingRanges]

\* checkDataCoverage
checkDataCoverage(candles, startTime, endTime, timeframe) ==
    IF candles = <<>> THEN wholeRangeMissing(startTime, endTime)
    ELSE IF CoverageBelowThreshold(
                Len(relevantTimes(candles, startTime, endTime)),
                CeilDiv(endTime - startTime, timeframeSeconds(timeframe)))
    THEN wholeRangeMissing(startTime, endTime)
    ELSE coverageOf(prefixRange(startTime, endTime, MinTime(candles))
                    \o suffixRange(startTime, endTime, MaxTime(candles))
                    \o internalRanges(relevantTimes(candles, startTime, endTime),
                                      timeframeSeconds(timeframe)))

\* the request of fetchAndStore, when the source was reached
fetchCalls(data, startTime, endTime) ==
    IF data.requested THEN <<[start |-> startTime, end |-> endTime]>> ELSE <<>>

\* A faulty fetchAndStore that swallows a failed fetch and returns no candles.
\* C19 must tell it from the real one.
storeFetched_SwallowsFailure(fs, data, w, calls) ==
    IF ~data.ok
    THEN [files |-> fs, status |-> "ok", result |-> <<>>, calls |-> calls,
          path |-> "empty", error |-> ""]
    ELSE IF w.threw
    THEN [files |-> w.files, status |-> "error", result |-> <<>>, calls |-> calls,
          path |-> "empty", error |-> "WriteFailed"]
    ELSE [files |-> w.files, status |-> "ok", result |-> data.candles, calls |-> calls,
          path |-> "empty", error |-> ""]

\* fetchAndStore after the fetch: w is the outcome of writing data.candles
storeFetched(fs, data, w, calls) ==
    IF ~data.ok
    THEN [files |-> fs, status |-> "error", result |-> <<>>, calls |-> calls,
          path |-> "empty", error |-> data.error]
    ELSE IF w.threw
    THEN [files |-> w.files, status |-> "error", result |-> <<>>, calls |-> calls,
          path |-> "empty", error |-> "WriteFailed"]
    ELSE [files |-> w.files, status |-> "ok", result |-> data.candles, calls |-> calls,
          path |-> "empty", error |-> ""]

\* fetchAndStore, given what fetchKlineDataBySource gave
fetchedAndStored(fs, dir, now, timeframe, startTime, endTime, dataSourceId, data, failedYears) ==
    storeFetched(fs, data,
                 writeKlineDataToFile(fs, dir, now, timeframe, data.candles, dataSourceId,
                                      failedYears),
                 fetchCalls(data, startTime, endTime))

\* fetchAndStore: one fetch of the full range, write, return the fetched candles
fetchAndStore(fs, dir, now, timeframe, startTime, endTime, dataSourceId, response, failedYears) ==
    fetchedAndStored(fs, dir, now, timeframe, startTime, endTime, dataSourceId,
                     fetchKlineDataBySource(dataSourceId, response), failedYears)

\* what getKlineData returns from the local candles alone
localResult(fs, candles, startTime, endTime, calls, path) ==
    [files |-> fs, status |-> "ok",
     result |-> filterCandlesByTimeRange(candles, startTime, endTime),
     calls |-> calls, path |-> path, error |-> ""]

\* the fetches of the gap loop that were started: all of them, or those up to the
\* first one that throws; none reaches a source when the id resolves to no source
gapCalls(ranges, data) ==
    SelectSeq(SubSeq(ranges, 1,
                     IF \A i \in DOMAIN ranges : data[i].ok THEN Len(ranges)
                     ELSE CHOOSE i \in DOMAIN ranges :
                              ~data[i].ok /\ \A j \in 1..(i - 1) : data[j].ok),
              LAMBDA r : data[1].requested)

\* the error of the first fetch of the gap loop that throws
firstError(data) ==
    data[CHOOSE i \in DOMAIN data : ~data[i].ok /\ \A j \in 1..(i - 1) : data[j].ok].error

\* step 4 after the merge: re-read and return, or return the local candles
returnUpdated(fs, stored, updated, startTime, endTime, calls) ==
    IF updated.present
    THEN localResult(fs, updated.candles, startTime, endTime, calls, "gapfill")
    ELSE localResult(fs, stored.candles, startTime, endTime, calls, "stale")

\* step 4, given the outcome m of mergeKlineDataToStorage
afterMerge(dir, now, timeframe, startTime, endTime, dataSourceId, stored, m, calls) ==
    IF m.threw
    THEN [files |-> m.files, status |-> "error", result |-> <<>>, calls |-> calls,
          path |-> "gapfill", error |-> "WriteFailed"]
    ELSE returnUpdated(m.files, stored,
                       readKlineDataFromFile(m.files, dir, now, timeframe, startTime,
                                             endTime, dataSourceId),
                       startTime, endTime, calls)

\* A faulty step 4 that fails when nothing was fetched.  C25 must tell it from
\* the real one.
mergeFetched_FailsOnEmpty(fs, dir, now, timeframe, startTime, endTime, dataSourceId, stored, fetchedCandles, calls, failedYears) ==
    IF fetchedCandles = <<>>
    THEN [files |-> fs, status |-> "error", result |-> <<>>, calls |-> calls,
          path |-> "stale", error |-> "NothingFetched"]
    ELSE afterMerge(dir, now, timeframe, startTime, endTime, dataSourceId, stored,
                    mergeKlineDataToFile(fs, dir, now, timeframe, fetchedCandles,
                                         dataSourceId, failedYears),
                    calls)

\* step 4: merge what was fetched, when anything was
mergeFetched(fs, dir, now, timeframe, startTime, endTime, dataSourceId, stored, fetchedCandles, calls, failedYears) ==
    IF fetchedCandles = <<>>
    THEN localResult(fs, stored.candles, startTime, endTime, calls, "stale")
    ELSE afterMerge(dir, now, timeframe, startTime, endTime, dataSourceId, stored,
                    mergeKlineDataToFile(fs, dir, now, timeframe, fetchedCandles,
                                         dataSourceId, failedYears),
                    calls)

\* step 3: the gap loop.  data[i] is what the fetch of ranges[i] gives; a fetch
\* that throws ends getKlineData with that error
fetchMissing(fs, dir, now, timeframe, startTime, endTime, dataSourceId, stored, ranges, data, failedYears) ==
    IF \E i \in DOMAIN ranges : ~data[i].ok
    THEN [files |-> fs, status |-> "error", result |-> <<>>,
          calls |-> gapCalls(ranges, data), path |-> "gapfill",
          error |-> firstError(data)]
    ELSE mergeFetched(fs, dir, now, timeframe, startTime, endTime, dataSourceId, stored,
                      Concat([i \in DOMAIN ranges |-> data[i].candles]),
                      gapCalls(ranges, data), failedYears)

\* step 2: return the local candles when they cover the window, else fill the gaps
coverStored(fs, dir, now, timeframe, startTime, endTime, dataSourceId, stored, coverage, responses, failedYears) ==
    IF ~coverage.hasGaps
    THEN localResult(fs, stored.candles, startTime, endTime, <<>>, "sufficient")
    ELSE fetchMissing(fs, dir, now, timeframe, startTime, endTime, dataSourceId, stored,
                      coverage.missingRanges,
                      [i \in DOMAIN coverage.missingRanges |->
                          fetchKlineDataBySource(dataSourceId, responses[i])],
                      failedYears)

\* getKlineData after step 1, given what readKlineDataFromStorage returned
getFromStored(fs, dir, now, timeframe, startTime, endTime, dataSourceId, stored, responses, failedYears) ==
    IF ~stored.present \/ stored.candles = <<>>
    THEN fetchAndStore(fs, dir, now, timeframe, startTime, endTime, dataSourceId,
                       responses[1], failedYears)
    ELSE coverStored(fs, dir, now, timeframe, startTime, endTime, dataSourceId, stored,
                     checkDataCoverage(stored.candles, startTime, endTime, timeframe),
                     responses, failedYears)

\* getKlineData.  responses[i]: what the source does on the i-th fetch of this call.
getKlineData(fs, dir, now, timeframe, startTime, endTime, dataSourceId, responses, failedYears) ==
    getFromStored(fs, dir, now, timeframe, startTime, endTime, dataSourceId,
                  readKlineDataFromFile(fs, dir, now, timeframe, startTime, endTime,
                                        dataSourceId),
                  responses, failedYears)

\* the number of missing ranges of a coverage result
rangeCount(coverage) == IF coverage.hasGaps THEN Len(coverage.missingRanges) ELSE 0

\* the number of fetches getKlineData attempts given what it read
fetchesFor(stored, timeframe, startTime, endTime) ==
    IF ~stored.present \/ stored.candles = <<>> THEN 1
    ELSE rangeCount(checkDataCoverage(stored.candles, startTime, endTime, timeframe))

\* the number of fetches getKlineData would attempt: one per missing range, one on
\* an empty store, none when the stored candles cover the window
fetchesNeeded(fs, dir, now, timeframe, startTime, endTime, dataSourceId) ==
    fetchesFor(readKlineDataFromFile(fs, dir, now, timeframe, startTime, endTime,
                                     dataSourceId),
               timeframe, startTime, endTime)

\* the end of updateLatestData's try block, given the outcome m of
\* mergeKlineDataToStorage
mergedLatest(m) ==
    [files |-> m.files, threw |-> m.threw, fetched |-> TRUE,
     error |-> IF m.threw THEN "WriteFailed" ELSE ""]

\* the try block of updateLatestData: parseDataSourceId, then for source
\* 'binance' fetchLatestKlineData and mergeKlineDataToStorage, else a warning
updateLatestBody(fs, dir, now, timeframe, dataSourceId, response, failedYears) ==
    IF Len(dataSourceId) < 2
    THEN [files |-> fs, threw |-> TRUE, fetched |-> FALSE, error |-> "InvalidIdFormat"]
    ELSE IF dataSourceId[1] # "binance"
    THEN [files |-> fs, threw |-> FALSE, fetched |-> FALSE, error |-> ""]
    ELSE IF ~response.ok
    THEN [files |-> fs, threw |-> TRUE, fetched |-> TRUE, error |-> "RemoteApiError"]
    ELSE mergedLatest(mergeKlineDataToFile(fs, dir, now, timeframe, response.candles,
                                           dataSourceId, failedYears))

\* the catch of updateLatestData: what the try block threw is logged
caughtLatest(body) ==
    [files |-> body.files, status |-> "ok", fetched |-> body.fetched, logged |-> body.error]

\* A faulty updateLatestData without the try/catch: what the body throws reaches
\* the caller.  C20 must tell it from the real one.
updateLatestData_NoCatch(fs, dir, now, timeframe, dataSourceId, response, failedYears) ==
    [caughtLatest(updateLatestBody(fs, dir, now, timeframe, dataSourceId, response,
                                   failedYears))
     EXCEPT !.status = IF updateLatestBody(fs, dir, now, timeframe, dataSourceId, response,
                                          failedYears).threw
                       THEN "error" ELSE "ok"]

\* updateLatestData: fetch the latest candles of a binance symbol and merge them;
\* every error is caught and logged
updateLatestData(fs, dir, now, timeframe, dataSourceId, response, failedYears) ==
    caughtLatest(updateLatestBody(fs, dir, now, timeframe, dataSourceId, response,
                                  failedYears))

----------------------------------------------------------------------------
(* Inputs of the model *)

Timeframes == {"1D"}

DataSourceIds == {<<"binance", "btc">>}

\* ids that resolve to no source: one segment only, and a source never registered
InvalidIds == {<<"binance">>, <<"kraken", "btc">>}

\* the ids the manager is called with
ManagerIds == DataSourceIds \cup InvalidIds

\* the clock's year while the model runs
NowYears == {2026}

\* the open times a remote source answers with: 1970-12-31 and 1971-01-01,
\* 00:00 UTC (two consecutive daily candles across a year boundary)
RemoteTimes == {yearStartSeconds(1971) - DaySeconds, yearStartSeconds(1971)}

\* the open times handed to write and merge: those, the day before and the day
\* after, so that both years hold two open times
CandleTimes ==
    RemoteTimes \cup {yearStartSeconds(1971) - 2 * DaySeconds,
                      yearStartSeconds(1971) + DaySeconds}

\* candle payloads: two values, to tell a stored candle from a newer one of the same time
Closes == {1, 2}

\* the candles handed to write and merge: one per open time, and a second payload
\* for 1971-01-01
Candles ==
    {c \in [time : CandleTimes, close : Closes] :
        c.close = 1 \/ c.time = yearStartSeconds(1971)}

\* all lists over S of length at most n
ListsUpTo(S, n) == UNION {[1..k -> S] : k \in 0..n}

\* the candle lists handed to write and merge
CandleLists == ListsUpTo(Candles, MaxLen)

\* the candle lists a remote source returns (any order, repeated times, any times)
RemoteCandleLists == ListsUpTo([time : RemoteTimes, close : {1}], MaxLen)

\* what one call of a source's fetchKlineData can do
Responses == {FetchFailed} \cup {FetchOk(l) : l \in RemoteCandleLists}

\* window bounds: the epoch, open times, and times between two open times
WindowBounds ==
    {0,
     yearStartSeconds(1971) - DaySeconds,
     yearStartSeconds(1971) - 100,
     yearStartSeconds(1971) + DaySeconds}

Windows == {w \in WindowBounds \X WindowBounds : w[1] <= w[2]}

\* the years whose file write the file system rejects: none
NoFailedYears == {}

\* the file system rejects no write, or the writes of the 1971 shard
FailedYearSets == {NoFailedYears, {1971}}

----------------------------------------------------------------------------
(* State machine *)

NoCall ==
    [op |-> "none", timeframe |-> "", dataSourceId |-> <<>>, startTime |-> Undefined,
     endTime |-> Undefined, candles |-> <<>>, status |-> "ok", present |-> FALSE,
     result |-> <<>>, calls |-> <<>>, path |-> "", error |-> "",
     hasGaps |-> FALSE, missingRanges |-> <<>>,
     currentStartTime |-> Undefined, requestCount |-> 0, allCandles |-> <<>>,
     responses |-> <<>>, source |-> <<>>, symbol |-> <<>>, id |-> <<>>]

Init ==
    /\ klineDataDirectoryHandle = FALSE
    /\ files = <<>>
    /\ nowYear \in NowYears
    /\ inflight = <<>>
    /\ last = NoCall

\* setKlineDataDirectory(handle)
SetKlineDataDirectory(handle) ==
    /\ klineDataDirectoryHandle' = handle
    /\ last' = [NoCall EXCEPT !.op = "setKlineDataDirectory"]
    /\ UNCHANGED <<files, nowYear, inflight>>

\* klineManager.getKlineData(timeframe, startTime, endTime, dataSourceId), the
\* source answering each request with one of the responses of remote
GetFrom(timeframe, startTime, endTime, dataSourceId, failedYears, remote) ==
    \E responses \in [1..fetchesNeeded(files, klineDataDirectoryHandle, nowYear, timeframe,
                                        startTime, endTime, dataSourceId) -> remote] :
        \E r \in {getKlineData(files, klineDataDirectoryHandle, nowYear, timeframe,
                               startTime, endTime, dataSourceId, responses, failedYears)} :
                /\ files' = r.files
                /\ last' = [NoCall EXCEPT !.op = "get", !.timeframe = timeframe,
                                !.dataSourceId = dataSourceId, !.startTime = startTime,
                                !.endTime = endTime, !.status = r.status,
                                !.result = r.result, !.calls = r.calls, !.path = r.path,
                                !.error = r.error,
                                !.responses = SubSeq(responses, 1, Len(r.calls))]
                /\ UNCHANGED <<klineDataDirectoryHandle, nowYear, inflight>>

\* klineManager.getKlineData with the remote source of the 1970/1971 candles
Get(timeframe, startTime, endTime, dataSourceId, failedYears) ==
    GetFrom(timeframe, startTime, endTime, dataSourceId, failedYears, Responses)

\* klineManager.updateLatestData(timeframe, limit, dataSourceId)
UpdateLatest(timeframe, dataSourceId, response, failedYears) ==
    \E r \in {updateLatestData(files, klineDataDirectoryHandle, nowYear, timeframe,
                              dataSourceId, response, failedYears)} :
        /\ files' = r.files
        /\ last' = [NoCall EXCEPT !.op = "updateLatest", !.timeframe = timeframe,
                        !.dataSourceId = dataSourceId, !.status = r.status,
                        !.candles = response.candles, !.error = r.logged]
        /\ UNCHANGED <<klineDataDirectoryHandle, nowYear, inflight>>

\* writeKlineDataToStorage(timeframe, candles, dataSourceId)
Write(timeframe, candles, dataSourceId, failedYears) ==
    \E r \in {writeKlineDataToFile(files, klineDataDirectoryHandle, nowYear, timeframe,
                                  candles, dataSourceId, failedYears)} :
        /\ files' = r.files
        /\ last' = [NoCall EXCEPT !.op = "write", !.timeframe = timeframe,
                        !.dataSourceId = dataSourceId, !.candles = candles,
                        !.status = IF r.threw THEN "error" ELSE "ok"]
        /\ UNCHANGED <<klineDataDirectoryHandle, nowYear, inflight>>

\* mergeKlineDataToStorage(timeframe, newCandles, dataSourceId)
Merge(timeframe, newCandles, dataSourceId, failedYears) ==
    \E r \in {mergeKlineDataToFile(files, klineDataDirectoryHandle, nowYear, timeframe,
                                  newCandles, dataSourceId, failedYears)} :
        /\ files' = r.files
        /\ last' = [NoCall EXCEPT !.op = "merge", !.timeframe = timeframe,
                        !.dataSourceId = dataSourceId, !.candles = newCandles,
                        !.status = IF r.threw THEN "error" ELSE "ok"]
        /\ UNCHANGED <<klineDataDirectoryHandle, nowYear, inflight>>

\* readKlineDataFromStorage(timeframe, startTime, endTime, dataSourceId)
Read(timeframe, startTime, endTime, dataSourceId) ==
    \E r \in {readKlineDataFromFile(files, klineDataDirectoryHandle, nowYear, timeframe,
                                   startTime, endTime, dataSourceId)} :
        /\ last' = [NoCall EXCEPT !.op = "read", !.timeframe = timeframe,
                        !.dataSourceId = dataSourceId, !.startTime = startTime,
                        !.endTime = endTime, !.present = r.present, !.result = r.candles]
        /\ UNCHANGED <<klineDataDirectoryHandle, files, nowYear, inflight>>

\* klineManager.clearCache(timeframe): clearKlineData passes no dataSourceId
ClearCache(timeframe) ==
    /\ files' = clearKlineDataFile(files, klineDataDirectoryHandle, timeframe, NoDataSourceId)
    /\ last' = [NoCall EXCEPT !.op = "clearCache", !.timeframe = timeframe]
    /\ UNCHANGED <<klineDataDirectoryHandle, nowYear, inflight>>

\* the manager's operations
Next ==
    \/ \E handle \in BOOLEAN : SetKlineDataDirectory(handle)
    \/ \E tf \in Timeframes, w \in Windows, id \in ManagerIds :
          Get(tf, w[1], w[2], id, NoFailedYears)
    \/ \E tf \in Timeframes, id \in ManagerIds, r \in Responses, fy \in FailedYearSets :
          UpdateLatest(tf, id, r, fy)
    \/ \E tf \in Timeframes : ClearCache(tf)

Spec == Init /\ [][Next]_vars

\* the storage facade's operations
NextStore ==
    \/ \E handle \in BOOLEAN : SetKlineDataDirectory(handle)
    \/ \E tf \in Timeframes, c \in CandleLists, id \in DataSourceIds :
          Write(tf, c, id, NoFailedYears)
    \/ \E tf \in Timeframes, c \in CandleLists, id \in DataSourceIds :
          Merge(tf, c, id, NoFailedYears)
    \/ \E tf \in Timeframes, w \in Windows, id \in DataSourceIds : Read(tf, w[1], w[2], id)

SpecStore == Init /\ [][NextStore]_vars

----------------------------------------------------------------------------
(* Vocabulary of the properties *)

\* the times of a list, ascending, each once
RECURSIVE AscendingTimes(_)
AscendingTimes(T) ==
    IF T = {} THEN <<>>
    ELSE LET m == CHOOSE t \in T : \A u \in T : t <= u
         IN  <<m>> \o AscendingTimes(T \ {m})

\* the candles a directory holds in the shard of a name (none when the file is absent)
ShardCandles(fs, name) == IF name \in DOMAIN fs THEN fs[name].candles ELSE <<>>

\* the candle stored for time t under (timeframe, dataSourceId): the last one of
\* that time in the shard of t's year, or none
StoredAt(fs, timeframe, dataSourceId, t) ==
    LET shard == ShardCandles(fs, getFilename(timeframe, getYearFromTimestamp(t), dataSourceId))
        at    == SelectSeq(shard, LAMBDA c : c.time = t)
    IN  IF at = <<>> THEN {} ELSE {at[Len(at)]}

\* all times stored in any file of a directory
AllStoredTimes(fs) == UNION {TimesOf(fs[name].candles) : name \in DOMAIN fs}

\* two directories hold the same files with the same candles
SameCandles(fs1, fs2) ==
    /\ DOMAIN fs1 = DOMAIN fs2
    /\ \A name \in DOMAIN fs1 : fs1[name].candles = fs2[name].candles

----------------------------------------------------------------------------
(* checkDataCoverage on its own: the arguments are drawn, then the check is applied *)

\* the period of the coverage check's timeframe
CoveragePeriod == timeframeSeconds("1D")

\* the known candles: one per period of a set of periods, ascending, as
\* readKlineDataFromFile returns them
KnownCandleLists ==
    {[i \in 1..Cardinality(S) |->
         [time |-> AscendingTimes({k * CoveragePeriod : k \in S})[i], close |-> 1]] :
       S \in SUBSET (0..MaxSlot)}

\* window bounds of the coverage check: the periods, and a time between two periods
CoverageBounds == {k * CoveragePeriod : k \in 0..MaxSlot} \cup {3 * CoveragePeriod + 100}

CoverageWindows == {w \in CoverageBounds \X CoverageBounds : w[1] <= w[2]}

\* the arguments of one checkDataCoverage call
InitCoverage ==
    /\ klineDataDirectoryHandle = FALSE
    /\ files = <<>>
    /\ nowYear \in NowYears
    /\ inflight = <<>>
    /\ \E c \in KnownCandleLists, w \in CoverageWindows :
          last = [NoCall EXCEPT !.op = "checkDataCoverage.call", !.timeframe = "1D",
                                !.candles = c, !.startTime = w[1], !.endTime = w[2]]

\* checkDataCoverage(candles, startTime, endTime, timeframe) returns
CheckDataCoverage ==
    /\ last.op = "checkDataCoverage.call"
    /\ \E r \in {checkDataCoverage(last.candles, last.startTime, last.endTime,
                                    last.timeframe)} :
          last' = [last EXCEPT !.op = "checkDataCoverage", !.hasGaps = r.hasGaps,
                               !.missingRanges = r.missingRanges]
    /\ UNCHANGED <<klineDataDirectoryHandle, files, nowYear, inflight>>

NextCoverage == CheckDataCoverage

SpecCoverage == InitCoverage /\ [][NextCoverage]_vars

\* the known candles of a long, densely filled stretch: one per period of
\* 0 .. MaxLongSlot but for at most MaxMissing periods
DenseCandleLists ==
    {[i \in 1..Cardinality(S) |->
         [time |-> AscendingTimes({k * CoveragePeriod : k \in S})[i], close |-> 1]] :
       S \in {(0..MaxLongSlot) \ M : M \in {M \in SUBSET (0..MaxLongSlot) :
                                               Cardinality(M) <= MaxMissing}}}

\* the windows over those periods
LongWindows ==
    {w \in {k * CoveragePeriod : k \in 0..MaxLongSlot}
            \X {k * CoveragePeriod : k \in 0..MaxLongSlot} : w[1] <= w[2]}

\* the arguments of one checkDataCoverage call over a long stretch; the known
\* candles are those of whole year shards, so some lie outside the window
InitCoverageLong ==
    /\ klineDataDirectoryHandle = FALSE
    /\ files = <<>>
    /\ nowYear \in NowYears
    /\ inflight = <<>>
    /\ \E c \in DenseCandleLists, w \in LongWindows :
          last = [NoCall EXCEPT !.op = "checkDataCoverage.call", !.timeframe = "1D",
                                !.candles = c, !.startTime = w[1], !.endTime = w[2]]

SpecCoverageLong == InitCoverageLong /\ [][NextCoverage]_vars

----------------------------------------------------------------------------
(* binanceDataSource.fetchKlineData: the pagination loop, one request per step. *)
(* A page of the remote API is held as a run [count, firstTime]: count candles *)
(* one period apart from firstTime on.                                         *)

\* BINANCE_API_CONFIG.MAX_LIMIT
MAX_LIMIT == 1000

\* BINANCE_API_CONFIG.MAX_REQUESTS
MAX_REQUESTS == 10

\* timeframeSecondsMap[interval] || 24 * 60 * 60 of the adapter
intervalSeconds(timeframe) ==
    CASE timeframe = "1H" -> 60 * 60
      [] timeframe = "4H" -> 4 * 60 * 60
      [] timeframe = "1D" -> 24 * 60 * 60
      [] timeframe = "1W" -> 7 * 24 * 60 * 60
      [] OTHER -> 24 * 60 * 60

\* the time of the last candle of a non-empty page
lastTimeOf(page, period) == page.firstTime + (page.count - 1) * period

\* what one HTTP request can end in: fetch rejects, a non-success status, a body
\* that is no JSON, or a page
HttpOutcomes == {"transport", "status", "json", "page"}

\* the sizes of the pages the remote API answers with: none, one, a full page
PageCounts == {0, 1, MAX_LIMIT}

\* where a page starts: at the request's startTime, or, with an API that ignores
\* the request, at the start of the whole range
pageStarts(call) == {call.currentStartTime, call.startTime}

\* the ends of the fetched ranges [0, end): empty, within one page, beyond ten pages
FetchEnds == {0, 500 * intervalSeconds("1D"), 12 * MAX_LIMIT * intervalSeconds("1D")}

\* the starts of the fetched ranges: the epoch and one period later (at or
\* after the first of the ends)
FetchStarts == {0, intervalSeconds("1D")}

\* fetchKlineData(params) is entered
InitFetch ==
    /\ klineDataDirectoryHandle = FALSE
    /\ files = <<>>
    /\ nowYear \in NowYears
    /\ inflight = <<>>
    /\ \E start \in FetchStarts, end \in FetchEnds :
          last = [NoCall EXCEPT !.op = "fetchKlineData.loop", !.timeframe = "1D",
                                !.startTime = start, !.endTime = end,
                                !.currentStartTime = start]

\* A faulty request whose window is not cut at endTime.  C24 must tell it from
\* the real one.
pageRequest_Unclamped(call) ==
    [start |-> call.currentStartTime,
     end   |-> call.currentStartTime + MAX_LIMIT * intervalSeconds(call.timeframe)]

\* the request of one iteration: [currentStartTime, min(currentStartTime + MAX_LIMIT * period, endTime)]
pageRequest(call) ==
    [start |-> call.currentStartTime,
     end   |-> IF call.currentStartTime + MAX_LIMIT * intervalSeconds(call.timeframe)
                    < call.endTime
               THEN call.currentStartTime + MAX_LIMIT * intervalSeconds(call.timeframe)
               ELSE call.endTime]

\* A faulty handler that returns the pages received so far when a request
\* throws.  C15 must tell it from the real one.
fetchThrew_ReturnsPartial(call, outcome) ==
    [call EXCEPT !.op = "fetchKlineData", !.status = "ok", !.error = outcome,
                 !.requestCount = call.requestCount + 1,
                 !.calls = Append(call.calls, pageRequest(call)),
                 !.result = call.allCandles]

\* the call after an iteration whose request threw: the catch rethrows
fetchThrew(call, outcome) ==
    [call EXCEPT !.op = "fetchKlineData", !.status = "error", !.error = outcome,
                 !.requestCount = call.requestCount + 1,
                 !.calls = Append(call.calls, pageRequest(call))]

\* the call after an iteration that received a page
fetchReceived(call, page) ==
    IF page.count = 0
    THEN [call EXCEPT !.op = "fetchKlineData", !.status = "ok",
                      !.requestCount = call.requestCount + 1,
                      !.calls = Append(call.calls, pageRequest(call)),
                      !.result = call.allCandles]
    ELSE IF \/ page.count < MAX_LIMIT
            \/ lastTimeOf(page, intervalSeconds(call.timeframe)) >= call.endTime
            \/ lastTimeOf(page, intervalSeconds(call.timeframe))
                   + intervalSeconds(call.timeframe) >= call.endTime
    THEN [call EXCEPT !.op = "fetchKlineData", !.status = "ok",
                      !.requestCount = call.requestCount + 1,
                      !.calls = Append(call.calls, pageRequest(call)),
                      !.allCandles = Append(call.allCandles, page),
                      !.result = Append(call.allCandles, page)]
    ELSE [call EXCEPT !.requestCount = call.requestCount + 1,
                      !.calls = Append(call.calls, pageRequest(call)),
                      !.allCandles = Append(call.allCandles, page),
                      !.currentStartTime =
                          lastTimeOf(page, intervalSeconds(call.timeframe))
                              + intervalSeconds(call.timeframe)]

\* A faulty loop without the page-count cap.  C14 must tell it from the real one.
FetchPage_NoCap(outcome, page) ==
    /\ last.op = "fetchKlineData.loop"
    /\ last.currentStartTime < last.endTime
    /\ last' = IF outcome = "page" THEN fetchReceived(last, page)
                ELSE fetchThrew(last, outcome)
    /\ UNCHANGED <<klineDataDirectoryHandle, files, nowYear, inflight>>

\* one iteration of the while loop: a request and what follows from its outcome
FetchPage(outcome, page) ==
    /\ last.op = "fetchKlineData.loop"
    /\ last.currentStartTime < last.endTime
    /\ last.requestCount < MAX_REQUESTS
    /\ last' = IF outcome = "page" THEN fetchReceived(last, page) ELSE fetchThrew(last, outcome)
    /\ UNCHANGED <<klineDataDirectoryHandle, files, nowYear, inflight>>

\* the while condition is false: return { candles: allCandles, ... }
FetchReturn ==
    /\ last.op = "fetchKlineData.loop"
    /\ ~(last.currentStartTime < last.endTime /\ last.requestCount < MAX_REQUESTS)
    /\ last' = [last EXCEPT !.op = "fetchKlineData", !.status = "ok",
                             !.result = last.allCandles]
    /\ UNCHANGED <<klineDataDirectoryHandle, files, nowYear, inflight>>

NextFetch ==
    \/ \E outcome \in HttpOutcomes, count \in PageCounts, first \in pageStarts(last) :
          FetchPage(outcome, [count |-> count, firstTime |-> first])
    \/ FetchReturn

SpecFetch == InitFetch /\ [][NextFetch]_vars

----------------------------------------------------------------------------
(* The store over a directory whose files can be damaged from outside *)

\* file contents that readKlineDataFromFile does not accept: a text that is no
\* JSON, and objects that lack timeframe, candles or lastUpdated
MalformedContents ==
    {[text |-> "not json"],
     [candles |-> <<[time |-> yearStartSeconds(1971), close |-> 2]>>, lastUpdated |-> 2026],
     [timeframe |-> "1D", lastUpdated |-> 2026],
     [timeframe |-> "1D", candles |-> <<[time |-> yearStartSeconds(1971), close |-> 2]>>]}

\* the shard files that get damaged
DamagedNames ==
    {getFilename(tf, y, id) : tf \in Timeframes, y \in {1970, 1971}, id \in DataSourceIds}

\* the user or another program replaces or creates a file of the directory
DamageFile(name, content) ==
    /\ files' = [n \in DOMAIN files \cup {name} |-> IF n = name THEN content ELSE files[n]]
    /\ last' = [NoCall EXCEPT !.op = "damageFile"]
    /\ UNCHANGED <<klineDataDirectoryHandle, nowYear, inflight>>

NextShards ==
    \/ \E handle \in BOOLEAN : SetKlineDataDirectory(handle)
    \/ \E tf \in Timeframes, c \in CandleLists, id \in DataSourceIds :
          Write(tf, c, id, NoFailedYears)
    \/ \E name \in DamagedNames, content \in MalformedContents : DamageFile(name, content)
    \/ \E tf \in Timeframes, w \in Windows, id \in DataSourceIds : Read(tf, w[1], w[2], id)

SpecShards == Init /\ [][NextShards]_vars

----------------------------------------------------------------------------
(* The manager over two timeframes with candles of 2001, and clearCache *)

\* the timeframes whose caches are filled and cleared
ClearTimeframes == {"1D", "4H"}

\* two consecutive daily open times of 2001, a year clearKlineDataFile loops over
RecentTimes == {yearStartSeconds(2001), yearStartSeconds(2001) + DaySeconds}

\* what the source answers: a failure, or the candles of a set of those times
RecentResponses ==
    {FetchFailed} \cup
    {FetchOk(SortByTime(l)) : l \in {l \in ListsUpTo([time : RecentTimes, close : {1}], MaxLen) :
                                        HasUniqueTimes(l)}}

\* the windows asked for: the two days, and the first day alone
RecentWindows ==
    {<<yearStartSeconds(2001), yearStartSeconds(2001) + DaySeconds>>,
     <<yearStartSeconds(2001), yearStartSeconds(2001)>>}

NextClear ==
    \/ \E handle \in BOOLEAN : SetKlineDataDirectory(handle)
    \/ \E tf \in ClearTimeframes, w \in RecentWindows, id \in DataSourceIds :
          GetFrom(tf, w[1], w[2], id, NoFailedYears, RecentResponses)
    \/ \E tf \in ClearTimeframes, id \in DataSourceIds, r \in RecentResponses :
          UpdateLatest(tf, id, r, NoFailedYears)
    \/ \E tf \in ClearTimeframes : ClearCache(tf)

SpecClear == Init /\ [][NextClear]_vars

----------------------------------------------------------------------------
(* buildDataSourceId and parseDataSourceId on texts *)

\* a text is the list of its characters; the alphabet holds a letter in both
\* cases and the delimiter
IdChars == {"a", "A", "-"}

\* String.prototype.toLowerCase / toUpperCase
toLowerCase(text) == [i \in DOMAIN text |-> IF text[i] = "A" THEN "a" ELSE text[i]]

toUpperCase(text) == [i \in DOMAIN text |-> IF text[i] = "a" THEN "A" ELSE text[i]]

\* the position of the first '-' of a text that holds one
firstDash(text) == CHOOSE i \in DOMAIN text : text[i] = "-" /\ \A j \in 1..(i - 1) : text[j] # "-"

RECURSIVE split(_)
\* text.split('-')
split(text) ==
    IF \A i \in DOMAIN text : text[i] # "-" THEN <<text>>
    ELSE <<SubSeq(text, 1, firstDash(text) - 1)>>
         \o split(SubSeq(text, firstDash(text) + 1, Len(text)))

RECURSIVE join(_)
\* parts.join('-')
join(parts) ==
    IF parts = <<>> THEN <<>>
    ELSE IF Len(parts) = 1 THEN parts[1]
    ELSE parts[1] \o <<"-">> \o join(Tail(parts))

\* buildDataSourceId
buildDataSourceId(source, symbol) == toLowerCase(source) \o <<"-">> \o toLowerCase(symbol)

\* parseDataSourceId after the split
parsedParts(parts) ==
    IF Len(parts) < 2
    THEN [status |-> "error", error |-> "InvalidIdFormat", result |-> <<>>]
    ELSE [status |-> "ok", error |-> "",
          result |-> <<parts[1], toUpperCase(join(Tail(parts)))>>]

\* parseDataSourceId: the source and the symbol, or the thrown error
parseDataSourceId(id) == parsedParts(split(id))

\* the texts handed in
IdTexts == UNION {[1..k -> IdChars] : k \in 0..MaxIdLen}

\* a pair (source, symbol) waits to be built, or an id waits to be parsed
InitIds ==
    /\ klineDataDirectoryHandle = FALSE
    /\ files = <<>>
    /\ nowYear \in NowYears
    /\ inflight = <<>>
    /\ \/ \E source \in IdTexts, symbol \in IdTexts :
             last = [NoCall EXCEPT !.op = "buildDataSourceId.call", !.source = source,
                                   !.symbol = symbol]
       \/ \E id \in IdTexts :
             last = [NoCall EXCEPT !.op = "parseDataSourceId.call", !.id = id]

\* buildDataSourceId(source, symbol)
BuildId ==
    /\ last.op = "buildDataSourceId.call"
    /\ last' = [last EXCEPT !.op = "buildDataSourceId",
                            !.id = buildDataSourceId(last.source, last.symbol)]
    /\ UNCHANGED <<klineDataDirectoryHandle, files, nowYear, inflight>>

\* parseDataSourceId(id), of a built id (path "roundtrip") or of a given one
ParseId ==
    /\ last.op \in {"buildDataSourceId", "parseDataSourceId.call"}
    /\ \E r \in {parseDataSourceId(last.id)} :
          last' = [last EXCEPT !.op = "parseDataSourceId",
                               !.path = IF last.op = "buildDataSourceId"
                                        THEN "roundtrip" ELSE "direct",
                               !.status = r.status, !.error = r.error, !.result = r.result]
    /\ UNCHANGED <<klineDataDirectoryHandle, files, nowYear, inflight>>

NextIds == BuildId \/ ParseId

SpecIds == InitIds /\ [][NextIds]_vars

----------------------------------------------------------------------------
(* Two calls in flight: every await of a storage or remote call is a step *)

\* the key of the first call, and the different keys of the second
FirstKey == [timeframe |-> "1D", dataSourceId |-> <<"binance", "btc">>]

OtherKeys ==
    {[timeframe |-> "4H", dataSourceId |-> <<"binance", "btc">>],
     [timeframe |-> "1D", dataSourceId |-> <<"binance", "eth">>]}

\* the years readKlineDataFromFile loops over
readYearsList(now, startTime, endTime) ==
    IF Truthy(startTime) /\ Truthy(endTime) THEN getYearsInRange(startTime, endTime)
    ELSE <<now>>

\* a call that has not reached its first await
NewCall(op, key) ==
    [op |-> op, timeframe |-> key.timeframe, dataSourceId |-> key.dataSourceId,
     startTime |-> Undefined, endTime |-> Undefined, pc |-> "done", path |-> "",
     years |-> <<>>, acc |-> <<>>, stored |-> NullData, ranges |-> <<>>, fetched |-> <<>>,
     toWrite |-> <<>>, pending |-> {}, responses |-> <<>>, touched |-> {},
     status |-> "ok", result |-> <<>>]

\* getKlineData up to its first await: the shard loop of readKlineDataFromStorage
StartGet(key, now, startTime, endTime) ==
    [NewCall("get", key) EXCEPT !.startTime = startTime, !.endTime = endTime,
                                !.pc = "read",
                                !.years = readYearsList(now, startTime, endTime)]

\* mergeKlineDataToFile up to its first await: the read of the first year
beginMerge(call, newCandles) ==
    [call EXCEPT !.pc = "mergeRead", !.fetched = newCandles, !.acc = <<>>,
                 !.years = getYearsInRange(MinTime(newCandles), MaxTime(newCandles))]

\* mergeKlineDataToStorage(timeframe, newCandles, dataSourceId), newCandles not empty
StartMerge(key, newCandles) ==
    beginMerge([NewCall("merge", key) EXCEPT !.path = "merge"], newCandles)

\* updateLatestData up to its first await: fetchLatestKlineData
StartUpdateLatest(key) ==
    [NewCall("updateLatest", key) EXCEPT !.pc = "fetch", !.path = "latest",
                                         !.ranges = <<[start |-> Undefined, end |-> Undefined]>>]

\* a call that returned or threw
doneCall(call, status, result) ==
    [call EXCEPT !.pc = "done", !.status = status, !.result = result]

\* getKlineData after checkDataCoverage
withCoverage(call, coverage) ==
    IF ~coverage.hasGaps
    THEN doneCall(call, "ok",
                  filterCandlesByTimeRange(call.stored.candles, call.startTime, call.endTime))
    ELSE [call EXCEPT !.pc = "fetch", !.path = "gapfill", !.ranges = coverage.missingRanges]

\* getKlineData after readKlineDataFromStorage returned stored
afterRead(call, stored) ==
    IF ~stored.present \/ stored.candles = <<>>
    THEN [call EXCEPT !.pc = "fetch", !.path = "empty", !.stored = stored,
                      !.ranges = <<[start |-> call.startTime, end |-> call.endTime]>>]
    ELSE withCoverage([call EXCEPT !.stored = stored],
                      checkDataCoverage(stored.candles, call.startTime, call.endTime,
                                        call.timeframe))

\* getKlineData after the re-read that follows the merge
afterReread(call, updated) ==
    doneCall(call, "ok",
             filterCandlesByTimeRange(IF updated.present THEN updated.candles
                                      ELSE call.stored.candles,
                                      call.startTime, call.endTime))

\* the shard loop after one more shard was read
shardRead(call) ==
    IF call.years # <<>> THEN call
    ELSE IF call.pc = "read" THEN afterRead(call, readResult(call.acc))
    ELSE afterReread(call, readResult(call.acc))

\* one pass of the shard loop of readKlineDataFromFile
stepReadShard(fs, call) ==
    shardRead([call EXCEPT
        !.acc = @ \o readShard(fs, getFilename(call.timeframe, Head(call.years),
                                               call.dataSourceId)),
        !.touched = @ \cup {getFilename(call.timeframe, Head(call.years),
                                        call.dataSourceId)},
        !.years = Tail(@)])

\* writeKlineDataToFile up to its awaits: one file write per year of the candles
beginWrite(call, candles) ==
    [call EXCEPT !.pc = "write", !.toWrite = candles, !.pending = YearsOf(candles)]

\* the call after its last fetch returned
afterFetches(call) ==
    IF call.ranges # <<>> THEN call
    ELSE IF call.path = "empty"
    THEN IF call.fetched = <<>> THEN doneCall(call, "ok", <<>>)
         ELSE beginWrite(call, call.fetched)
    ELSE IF call.fetched # <<>> THEN beginMerge(call, call.fetched)
    ELSE IF call.path = "latest" THEN doneCall(call, "ok", <<>>)
    ELSE doneCall(call, "ok",
                  filterCandlesByTimeRange(call.stored.candles, call.startTime,
                                           call.endTime))

\* one awaited fetch: a gap of getKlineData, the whole window of fetchAndStore
\* or fetchLatestKlineData; updateLatestData catches what it throws
stepFetch(call, response) ==
    IF ~response.ok
    THEN doneCall([call EXCEPT !.responses = Append(@, response)],
                  IF call.path = "latest" THEN "ok" ELSE "error", <<>>)
    ELSE afterFetches([call EXCEPT !.responses = Append(@, response),
                                   !.fetched = @ \o response.candles,
                                   !.ranges = Tail(@)])

\* mergeKlineDataToFile after one more year was read
yearMerged(call) ==
    IF call.years # <<>> THEN call
    ELSE beginWrite(call, SortByTime(CandleMapValues(call.acc \o call.fetched)))

\* one pass of the existing-data loop of mergeKlineDataToFile
stepMergeRead(fs, now, call) ==
    yearMerged([call EXCEPT
        !.acc = @ \o existingCandlesOf(
                         readKlineDataFromFile(fs, TRUE, now, call.timeframe,
                                               yearStartSeconds(Head(call.years)),
                                               yearStartSeconds(Head(call.years) + 1) - 1,
                                               call.dataSourceId)),
        !.touched = @ \cup
            {getFilename(call.timeframe,
                         readYearsList(now, yearStartSeconds(Head(call.years)),
                                       yearStartSeconds(Head(call.years) + 1) - 1)[1],
                         call.dataSourceId)},
        !.years = Tail(@)])

\* the call after Promise.all of the file writes resolved
afterWrites(call, now) ==
    IF call.pending # {} THEN call
    ELSE IF call.path = "empty" THEN doneCall(call, "ok", call.fetched)
    ELSE IF call.path = "gapfill"
    THEN [call EXCEPT !.pc = "reread", !.acc = <<>>,
                      !.years = readYearsList(now, call.startTime, call.endTime)]
    ELSE doneCall(call, "ok", <<>>)

\* one file write of writeKlineDataToFile completed
stepWrite(call, now, year) ==
    afterWrites([call EXCEPT
                    !.pending = @ \ {year},
                    !.touched = @ \cup {getFilename(call.timeframe, year,
                                                    call.dataSourceId)}],
                now)

\* the directory after the call ran alone, from its first to its last step, with
\* the responses it received (a call that needs more gets failures)
ranAlone(fs, now, call) ==
    IF call.op = "get"
    THEN getKlineData(fs, TRUE, now, call.timeframe, call.startTime, call.endTime,
                      call.dataSourceId,
                      call.responses \o <<FetchFailed, FetchFailed, FetchFailed>>,
                      NoFailedYears).files
    ELSE IF call.op = "merge"
    THEN mergeKlineDataToFile(fs, TRUE, now, call.timeframe, call.fetched,
                              call.dataSourceId, NoFailedYears).files
    ELSE updateLatestData(fs, TRUE, now, call.timeframe, call.dataSourceId,
                          (call.responses \o <<FetchFailed>>)[1], NoFailedYears).files

\* the windows, new candles and responses of the two calls
PairWindows ==
    {<<yearStartSeconds(1971) - DaySeconds, yearStartSeconds(1971)>>,
     <<yearStartSeconds(1971) - DaySeconds, yearStartSeconds(1971) - 100>>}

PairCandleLists ==
    {<<[time |-> yearStartSeconds(1971), close |-> 2]>>,
     <<[time |-> yearStartSeconds(1971) + DaySeconds, close |-> 1],
       [time |-> yearStartSeconds(1971) - DaySeconds, close |-> 1]>>}

PairResponses ==
    {FetchFailed, FetchOk(<<>>),
     FetchOk(<<[time |-> yearStartSeconds(1971), close |-> 1]>>),
     FetchOk(<<[time |-> yearStartSeconds(1971) - DaySeconds, close |-> 1],
               [time |-> yearStartSeconds(1971), close |-> 1]>>)}

\* the calls a key can be given
CallsOf(key, now) ==
    {StartGet(key, now, w[1], w[2]) : w \in PairWindows}
        \cup {StartMerge(key, c) : c \in PairCandleLists}
        \cup {StartUpdateLatest(key)}

\* the directories the calls start on: empty, or each key holding what a get of
\* the last day of 1970 stored
PairStores(key, now) ==
    {<<>>,
     writeKlineDataToFile(
         writeKlineDataToFile(<<>>, TRUE, now, FirstKey.timeframe,
                              <<[time |-> yearStartSeconds(1971) - DaySeconds, close |-> 1]>>,
                              FirstKey.dataSourceId, NoFailedYears).files,
         TRUE, now, key.timeframe,
         <<[time |-> yearStartSeconds(1971) - DaySeconds, close |-> 1]>>,
         key.dataSourceId, NoFailedYears).files}

\* a directory is set and two calls for different keys have just been made
InitPair ==
    /\ klineDataDirectoryHandle = TRUE
    /\ nowYear \in NowYears
    /\ last = NoCall
    /\ \E key \in OtherKeys :
          /\ files \in PairStores(key, nowYear)
          /\ \E first \in CallsOf(FirstKey, nowYear), second \in CallsOf(key, nowYear) :
                inflight = [store0 |-> files, overlapped |-> FALSE,
                            calls |-> <<first, second>>]

\* the other call has passed an await and has not finished
Midway(call) == call.pc # "done" /\ (call.touched # {} \/ call.responses # <<>>)

\* call p resumes with r.call, the directory being r.files
Resume(p, r) ==
    /\ files' = r.files
    /\ inflight' = [inflight EXCEPT !.calls[p] = r.call,
                                    !.overlapped = @ \/ Midway(inflight.calls[3 - p])]
    /\ UNCHANGED <<klineDataDirectoryHandle, nowYear, last>>

\* a shard read of readKlineDataFromFile resolves
PairReadShard(p) ==
    /\ inflight.calls[p].pc \in {"read", "reread"}
    /\ Resume(p, [files |-> files, call |-> stepReadShard(files, inflight.calls[p])])

\* a fetch resolves or rejects
PairFetch(p, response) ==
    /\ inflight.calls[p].pc = "fetch"
    /\ Resume(p, [files |-> files, call |-> stepFetch(inflight.calls[p], response)])

\* a year's read of mergeKlineDataToFile resolves
PairMergeRead(p) ==
    /\ inflight.calls[p].pc = "mergeRead"
    /\ Resume(p, [files |-> files,
                  call |-> stepMergeRead(files, nowYear, inflight.calls[p])])

\* a file write of writeKlineDataToFile resolves
PairWriteShard(p, year) ==
    /\ inflight.calls[p].pc = "write"
    /\ year \in inflight.calls[p].pending
    /\ Resume(p, [files |-> writeYears(files, nowYear, inflight.calls[p].timeframe,
                                       inflight.calls[p].toWrite,
                                       inflight.calls[p].dataSourceId, {year}),
                  call  |-> stepWrite(inflight.calls[p], nowYear, year)])

NextPair ==
    \/ \E p \in {1, 2} : PairReadShard(p)
    \/ \E p \in {1, 2}, r \in PairResponses : PairFetch(p, r)
    \/ \E p \in {1, 2} : PairMergeRead(p)
    \/ \E p \in {1, 2}, y \in {1970, 1971} : PairWriteShard(p, y)

SpecPair == InitPair /\ [][NextPair]_vars

----------------------------------------------------------------------------
(* The store over a directory that holds a legacy single file *)

\* two consecutive daily open times of the current year
CurrentTimes == {yearStartSeconds(2026), yearStartSeconds(2026) + DaySeconds}

\* the candle lists written, merged and fetched in the current year
CurrentCandleLists ==
    {l \in ListsUpTo([time : CurrentTimes, close : {1}], MaxLen) : HasUniqueTimes(l)} \ {<<>>}

CurrentResponses == {FetchFailed} \cup {FetchOk(l) : l \in CurrentCandleLists}

\* the time ranges of the reads and gets: none given, and the two days
CurrentWindows ==
    {<<Undefined, Undefined>>,
     <<yearStartSeconds(2026), yearStartSeconds(2026) + DaySeconds>>}

\* kline_{timeframe}.json as an earlier version of the program left it
LegacyContents ==
    {[timeframe |-> "1D", candles |-> <<[time |-> yearStartSeconds(2026), close |-> 2]>>,
      lastUpdated |-> 2025]}

\* the directory the user picks holds, or is given, a legacy file
PlaceLegacyFile(timeframe, content) ==
    /\ files' = [n \in DOMAIN files \cup {oldFilename(timeframe)} |->
                    IF n = oldFilename(timeframe) THEN content ELSE files[n]]
    /\ last' = [NoCall EXCEPT !.op = "placeLegacyFile", !.timeframe = timeframe]
    /\ UNCHANGED <<klineDataDirectoryHandle, nowYear, inflight>>

NextLegacy ==
    \/ \E handle \in BOOLEAN : SetKlineDataDirectory(handle)
    \/ \E tf \in Timeframes, content \in LegacyContents : PlaceLegacyFile(tf, content)
    \/ \E tf \in Timeframes, c \in CurrentCandleLists, id \in DataSourceIds :
          Write(tf, c, id, NoFailedYears)
    \/ \E tf \in Timeframes, c \in CurrentCandleLists, id \in DataSourceIds :
          Merge(tf, c, id, NoFailedYears)
    \/ \E tf \in Timeframes, w \in CurrentWindows, id \in DataSourceIds :
          Read(tf, w[1], w[2], id)
    \/ \E tf \in Timeframes, w \in CurrentWindows \ {<<Undefined, Undefined>>},
          id \in DataSourceIds :
          GetFrom(tf, w[1], w[2], id, NoFailedYears, CurrentResponses)
    \/ \E tf \in Timeframes, id \in DataSourceIds, r \in CurrentResponses :
          UpdateLatest(tf, id, r, NoFailedYears)

SpecLegacy == Init /\ [][NextLegacy]_vars

----------------------------------------------------------------------------
(* The manager over a file system that can reject the writes of a shard *)

NextRejecting ==
    \/ \E handle \in BOOLEAN : SetKlineDataDirectory(handle)
    \/ \E tf \in Timeframes, w \in Windows, id \in DataSourceIds, fy \in FailedYearSets :
          Get(tf, w[1], w[2], id, fy)

SpecRejecting == Init /\ [][NextRejecting]_vars

----------------------------------------------------------------------------
(* Properties *)

\* C1: every candle that a returning getKlineData call returns has a time inside
\* the requested window, startTime <= time <= endTime, on every return path.
C1_ReturnedCandlesInsideWindow ==
    (last.op = "get" /\ last.status = "ok") =>
        \A i \in DOMAIN last.result :
            last.startTime <= last.result[i].time /\ last.result[i].time <= last.endTime

\* C2: a getKlineData call that found stored candles (it did not take the
\* empty-store path) never fails: a failed gap fetch ends in the stored candles
\* being returned, not in an error.
C2_GapFetchFailureReturnsStale ==
    (last.op = "get" /\ last.path # "empty") => last.status = "ok"

\* C3: a step of getKlineData, updateLatestData or merge keeps every file and
\* every candle time that a file held before the step.
C3_CandleTimesPersist ==
    [][last'.op \in {"get", "updateLatest", "merge"} =>
          \A name \in DOMAIN files :
              /\ name \in DOMAIN files'
              /\ TimesOf(files[name].candles) \subseteq TimesOf(files'[name].candles)]_vars

\* C4: every shard file holds its candles ascending by time, no two with the
\* same time, and each in the UTC year the file is named after.
C4_ShardsSortedUniqueInYear ==
    \A name \in DOMAIN files :
        /\ IsSortedByTime(files[name].candles)
        /\ HasUniqueTimes(files[name].candles)
        /\ \A i \in DOMAIN files[name].candles :
               getYearFromTimestamp(files[name].candles[i].time) = name[Len(name)]

\* C5: when a getKlineData call on an empty store succeeded and persisted what
\* it fetched, the next getKlineData call with the same arguments makes no
\* remote request and succeeds.  Stated for the calls the claim is plainly
\* about: startTime > 0 and a source that answered inside the window.
C5_SecondGetMakesNoRequest ==
    [][(/\ last.op = "get" /\ last.path = "empty" /\ last.status = "ok"
        /\ klineDataDirectoryHandle /\ last.result # <<>>
        /\ last.startTime > 0
        /\ \A i \in DOMAIN last.result :
              last.startTime <= last.result[i].time /\ last.result[i].time <= last.endTime
        /\ last'.op = "get"
        /\ last'.timeframe = last.timeframe /\ last'.dataSourceId = last.dataSourceId
        /\ last'.startTime = last.startTime /\ last'.endTime = last.endTime)
       => (last'.calls = <<>> /\ last'.status = "ok")]_vars

\* C6: a getKlineData call of a registered source that finds the configured
\* store empty calls the source's fetch exactly once, for [startTime, endTime]; when the fetch
\* succeeds the directory gains exactly one shard per UTC year in which a
\* fetched candle falls, holding that year's fetched candles, and no other file
\* appears or changes; when the fetch fails the directory is unchanged.
C6_EmptyStoreGetFetchesOnceAndShardsByYear ==
    [][(/\ last'.op = "get" /\ last'.path = "empty" /\ klineDataDirectoryHandle
        /\ Len(last'.dataSourceId) >= 2
        /\ last'.dataSourceId[1] \in dataSourceRegistry) =>
          LET shardName(y) == getFilename(last'.timeframe, y, last'.dataSourceId)
              years == YearsOf(last'.result)
          IN  /\ last'.calls = <<[start |-> last'.startTime, end |-> last'.endTime]>>
              /\ last'.status = "error" => files' = files
              /\ last'.status = "ok" =>
                    /\ DOMAIN files' = DOMAIN files \cup {shardName(y) : y \in years}
                    /\ \A y \in years :
                          TimesOf(files'[shardName(y)].candles)
                              = TimesOf(CandlesOfYear(last'.result, y))
                    /\ \A name \in DOMAIN files :
                          name \notin {shardName(y) : y \in years} =>
                              files'[name] = files[name]]_vars

\* C6 witness: a get on the empty configured store fetched candles of two
\* calendar years with one request and both years' shards exist.
C6_Witness ==
    /\ last.op = "get" /\ last.path = "empty" /\ last.status = "ok"
    /\ klineDataDirectoryHandle
    /\ Len(last.calls) = 1
    /\ Cardinality(YearsOf(last.result)) = 2
    /\ \A y \in YearsOf(last.result) :
          getFilename(last.timeframe, y, last.dataSourceId) \in DOMAIN files

\* C7: after write(candles) on a store that holds nothing else, read over any
\* range [startTime, endTime] with 0 <= startTime <= endTime that contains all
\* the candles' times returns the input's times, each once, ascending.
C7_WriteReadRoundTrip ==
    [][(/\ last.op = "write" /\ last.status = "ok" /\ klineDataDirectoryHandle
        /\ AllStoredTimes(files) = TimesOf(last.candles)
        /\ last'.op = "read"
        /\ last'.timeframe = last.timeframe /\ last'.dataSourceId = last.dataSourceId
        /\ 0 <= last'.startTime /\ last'.startTime <= last'.endTime
        /\ \A t \in TimesOf(last.candles) : last'.startTime <= t /\ t <= last'.endTime)
       => [i \in DOMAIN last'.result |-> last'.result[i].time]
              = AscendingTimes(TimesOf(last.candles))]_vars

\* C8: merging the same candles a second time changes no shard: after a merge,
\* the merge of the same list leaves every file with the same candles.
C8_MergeIdempotent ==
    (last.op = "merge" /\ last.status = "ok") =>
        SameCandles(mergeKlineDataToFile(files, klineDataDirectoryHandle, nowYear,
                                         last.timeframe, last.candles, last.dataSourceId,
                                         NoFailedYears).files,
                    files)

\* C8 witness: a merge into a configured store left a shard that holds both a
\* time of the merged list and a time that the list does not have.
C8_Witness ==
    /\ last.op = "merge" /\ last.status = "ok" /\ klineDataDirectoryHandle
    /\ \E name \in DOMAIN files :
          /\ TimesOf(files[name].candles) \cap TimesOf(last.candles) # {}
          /\ TimesOf(files[name].candles) \ TimesOf(last.candles) # {}

\* C9: merges of lists with no time in common commute: after merge(A), merging
\* any B disjoint from A gives the same shards as merge(B) followed by merge(A)
\* from the state before.
C9_MergeCommutesOnDisjointTimes ==
    [][(last'.op = "merge" /\ last'.status = "ok" /\ klineDataDirectoryHandle) =>
          \A B \in CandleLists :
              TimesOf(B) \cap TimesOf(last'.candles) = {} =>
                  LET M(fs, c) == mergeKlineDataToFile(fs, klineDataDirectoryHandle, nowYear,
                                      last'.timeframe, c, last'.dataSourceId,
                                      NoFailedYears).files
                  IN  SameCandles(M(files', B), M(M(files, B), last'.candles))]_vars

\* C10: after merge(newCandles) the candle stored at each time of newCandles is
\* the last one of that time in newCandles, and the candle stored at every
\* other time is the one stored before.
C10_MergeNewWinsOthersUnchanged ==
    [][(last'.op = "merge" /\ last'.status = "ok" /\ klineDataDirectoryHandle) =>
          LET new == last'.candles
              stored(fs, t) == StoredAt(fs, last'.timeframe, last'.dataSourceId, t)
          IN  /\ \A t \in TimesOf(new) :
                    stored(files', t) = {CandleMapValues(new)[i] :
                                            i \in {j \in DOMAIN CandleMapValues(new) :
                                                      CandleMapValues(new)[j].time = t}}
              /\ \A t \in AllStoredTimes(files) \ TimesOf(new) :
                    stored(files', t) = stored(files, t)]_vars

----------------------------------------------------------------------------
(* Properties of checkDataCoverage *)

\* the known times of the last coverage check that lie inside its window
KnownInWindow ==
    {t \in TimesOf(last.candles) : last.startTime <= t /\ t <= last.endTime}

\* ceil((end - start) / period) of the last coverage check
ExpectedCount == CeilDiv(last.endTime - last.startTime, CoveragePeriod)

\* the ratio of known times in the window to expected ones is a number below 0.8
RatioBelow ==
    ExpectedCount > 0 /\ 10 * Cardinality(KnownInWindow) < 8 * ExpectedCount

\* the pairs of consecutive known times inside the window
ConsecutiveInWindow ==
    {p \in KnownInWindow \X KnownInWindow :
        p[1] < p[2] /\ ~\E t \in KnownInWindow : p[1] < t /\ t < p[2]}

\* the prefix gap and the suffix gap that the last coverage check has to report
ExpectedPrefix ==
    IF last.startTime < MinTime(last.candles)
    THEN <<[start |-> last.startTime,
            end   |-> IF MinTime(last.candles) - 1 < last.endTime
                      THEN MinTime(last.candles) - 1 ELSE last.endTime]>>
    ELSE <<>>

ExpectedSuffix ==
    IF last.endTime > MaxTime(last.candles)
    THEN <<[start |-> IF MaxTime(last.candles) + 1 > last.startTime
                      THEN MaxTime(last.candles) + 1 ELSE last.startTime,
            end   |-> last.endTime]>>
    ELSE <<>>

\* C11: with known candles and a ratio of known times in the window to expected
\* times below 0.8, the coverage check returns the one gap [start, end] and no
\* prefix, suffix or internal gap.
C11_LowCoverageGivesWholeRange ==
    (last.op = "checkDataCoverage" /\ last.candles # <<>> /\ RatioBelow) =>
        /\ last.hasGaps
        /\ last.missingRanges = <<[start |-> last.startTime, end |-> last.endTime]>>

\* C11 witness: known candles only at S and at E, three periods or more apart,
\* window [S, E], and the check returned the single gap [S, E].
C11_Witness ==
    /\ last.op = "checkDataCoverage"
    /\ TimesOf(last.candles) = {last.startTime, last.endTime}
    /\ last.endTime - last.startTime >= 3 * CoveragePeriod
    /\ last.missingRanges = <<[start |-> last.startTime, end |-> last.endTime]>>

\* C12: with known candles and a ratio not below 0.8, the gaps after the prefix
\* and suffix gaps are, in ascending order, [prev + period, next - period] for
\* exactly the pairs prev, next of consecutive known times in the window that lie
\* more than two periods apart; for such a pair the range is never empty or
\* reversed, so the strict test start < end drops none that start <= end keeps.
C12_InternalGapsExact ==
    (last.op = "checkDataCoverage" /\ last.candles # <<>> /\ ~RatioBelow) =>
        LET far == {p \in ConsecutiveInWindow : p[2] - p[1] > 2 * CoveragePeriod}
            edge == Len(ExpectedPrefix) + Len(ExpectedSuffix)
            internal == SubSeq(last.missingRanges, edge + 1, Len(last.missingRanges))
        IN  /\ Len(internal) = Cardinality(far)
            /\ {internal[i] : i \in DOMAIN internal}
                   = {[start |-> p[1] + CoveragePeriod, end |-> p[2] - CoveragePeriod] :
                         p \in far}
            /\ \A i \in 1..(Len(internal) - 1) : internal[i].start < internal[i + 1].start
            /\ \A p \in far :
                   p[1] + CoveragePeriod <= p[2] - CoveragePeriod
                       => p[1] + CoveragePeriod < p[2] - CoveragePeriod

\* C12 witness: known times {0, P, 2P, 5P, 6P}, window [0, 6P], and the gap list
\* is the single gap [3P, 4P].
C12_Witness ==
    /\ last.op = "checkDataCoverage"
    /\ TimesOf(last.candles) = {k * CoveragePeriod : k \in {0, 1, 2, 5, 6}}
    /\ last.startTime = 0 /\ last.endTime = 6 * CoveragePeriod
    /\ last.missingRanges
          = <<[start |-> 3 * CoveragePeriod, end |-> 4 * CoveragePeriod]>>

\* C13: with known candles and a ratio not below 0.8 the gap list starts with
\* the prefix gap [start, min(minKnown - 1, end)] exactly when start < minKnown,
\* followed by the suffix gap [max(maxKnown + 1, start), end] exactly when
\* end > maxKnown, minKnown and maxKnown taken over all known candles; with no
\* known candle the only gap is [start, end]; and hasGaps holds exactly when the
\* gap list is not empty.
C13_EdgeGapsAndSufficiency ==
    last.op = "checkDataCoverage" =>
        /\ last.hasGaps <=> last.missingRanges # <<>>
        /\ last.candles = <<>> =>
               last.missingRanges = <<[start |-> last.startTime, end |-> last.endTime]>>
        /\ (last.candles # <<>> /\ ~RatioBelow) =>
               /\ Len(last.missingRanges) >= Len(ExpectedPrefix) + Len(ExpectedSuffix)
               /\ SubSeq(last.missingRanges, 1, Len(ExpectedPrefix) + Len(ExpectedSuffix))
                      = ExpectedPrefix \o ExpectedSuffix
               /\ \A i \in (Len(ExpectedPrefix) + Len(ExpectedSuffix) + 1)
                              ..Len(last.missingRanges) :
                      /\ last.missingRanges[i].start > MinTime(last.candles)
                      /\ last.missingRanges[i].end < MaxTime(last.candles)

\* C13 witness: a window that starts before the first and ends after the last of
\* several known candles, with both edge gaps reported.
C13_Witness ==
    /\ last.op = "checkDataCoverage"
    /\ Len(last.candles) >= 2 /\ ~RatioBelow
    /\ last.startTime < MinTime(last.candles)
    /\ last.endTime > MaxTime(last.candles)
    /\ Len(last.missingRanges) >= 2
    /\ last.missingRanges[1].start = last.startTime
    /\ last.missingRanges[2].end = last.endTime

----------------------------------------------------------------------------
(* Properties of binanceDataSource.fetchKlineData *)

\* C14: one fetchKlineData call issues at most MAX_REQUESTS (10) requests and
\* ends: every step of the loop either returns or throws, or adds one request,
\* a call inside the loop can always take a step, and a call stopped by the
\* request cap returns the pages received so far.
C14_AtMostTenRequestsThenReturns ==
    /\ [](last.op = "fetchKlineData.loop" => ENABLED NextFetch)
    /\ [][last.op = "fetchKlineData.loop" =>
             /\ last'.requestCount <= MAX_REQUESTS
             /\ Len(last'.calls) = last'.requestCount
             /\ last'.op = "fetchKlineData.loop" =>
                    last'.requestCount = last.requestCount + 1
             /\ last'.op # "fetchKlineData.loop" => last'.op = "fetchKlineData"
             /\ last.requestCount = MAX_REQUESTS =>
                    /\ last'.op = "fetchKlineData" /\ last'.status = "ok"
                    /\ last'.requestCount = MAX_REQUESTS
                    /\ last'.result = last.allCandles]_vars

\* C14 witness: a call returned after ten requests that each brought a full page,
\* with all ten pages in its result, the range not yet covered.
C14_Witness ==
    /\ last.op = "fetchKlineData" /\ last.status = "ok"
    /\ last.requestCount = MAX_REQUESTS
    /\ last.currentStartTime < last.endTime
    /\ Len(last.result) = MAX_REQUESTS
    /\ \A i \in DOMAIN last.result : last.result[i].count = MAX_LIMIT

\* C15: a page request that ends in a transport error, a non-success status or
\* an unreadable body ends the whole fetchKlineData call in an error that
\* carries no candles, whatever the earlier pages brought.
C15_PageFailureFailsWholeFetch ==
    [][(last.op = "fetchKlineData.loop" /\ last'.error # "") =>
          /\ last'.op = "fetchKlineData"
          /\ last'.status = "error"
          /\ last'.result = <<>>]_vars

\* C15 witness: a call failed by a non-success status after earlier pages had
\* been received.
C15_Witness ==
    /\ last.op = "fetchKlineData" /\ last.status = "error" /\ last.error = "status"
    /\ last.allCandles # <<>>
    /\ last.requestCount >= 2

----------------------------------------------------------------------------
(* Properties of reading damaged shards *)

\* the years a read consults: those of its window, or the current year alone
\* when a bound of the window is 0 or not given (the shard loop's
\* `startTime && endTime`)
WindowShardYears ==
    IF Truthy(last.startTime) /\ Truthy(last.endTime)
    THEN getYearFromTimestamp(last.startTime)..getYearFromTimestamp(last.endTime)
    ELSE {nowYear}

\* the shard files of those years
WindowShardNames ==
    {getFilename(last.timeframe, y, last.dataSourceId) : y \in WindowShardYears}

\* the files among those that exist and hold timeframe, a candle list and a timestamp
WindowShardsValid ==
    {n \in WindowShardNames \cap DOMAIN files :
        {"timeframe", "candles", "lastUpdated"} \subseteq DOMAIN files[n]}

\* C16: a read returns the candle times of exactly the valid shards of the
\* years it consults: a shard that is missing, unparseable
\* or lacks timeframe, candles or lastUpdated adds nothing and takes nothing
\* away from the other years; the result is null exactly when no valid shard
\* holds a candle.
C16_BadShardsReadAsAbsent ==
    (last.op = "read" /\ klineDataDirectoryHandle) =>
        /\ TimesOf(last.result)
               = UNION {TimesOf(files[n].candles) : n \in WindowShardsValid}
        /\ last.present <=> (\E n \in WindowShardsValid : files[n].candles # <<>>)

\* C16 witness: a read over both years returned the candles of one year's valid
\* shard while the other year's shard is a file that is not valid.
C16_Witness ==
    /\ last.op = "read" /\ klineDataDirectoryHandle /\ last.startTime > 0
    /\ last.present /\ last.result # <<>>
    /\ Cardinality(WindowShardNames) = 2
    /\ \E n \in (WindowShardNames \cap DOMAIN files) \ WindowShardsValid : TRUE
    /\ WindowShardsValid # {}

----------------------------------------------------------------------------
(* Properties of the manager without a storage directory *)

\* C17: while no directory handle is set, every read returns null, every write
\* and merge completes without throwing and leaves the files as they are, and a
\* get with an id of a registered source makes exactly one request, for its
\* whole window, changes no file and, when the source answers, returns the
\* source's candles without error.
C17_NoDirectoryFetchesWholeRange ==
    /\ [](~klineDataDirectoryHandle =>
            /\ \A tf \in Timeframes, w \in Windows, id \in DataSourceIds :
                   readKlineDataFromFile(files, klineDataDirectoryHandle, nowYear, tf,
                                         w[1], w[2], id) = NullData
            /\ \A tf \in Timeframes, c \in CandleLists, id \in DataSourceIds :
                   /\ writeKlineDataToFile(files, klineDataDirectoryHandle, nowYear, tf, c,
                                           id, {1970, 1971})
                          = [files |-> files, threw |-> FALSE]
                   /\ mergeKlineDataToFile(files, klineDataDirectoryHandle, nowYear, tf, c,
                                           id, {1970, 1971})
                          = [files |-> files, threw |-> FALSE]
            /\ (/\ last.op = "get"
                /\ Len(last.dataSourceId) >= 2
                /\ last.dataSourceId[1] \in dataSourceRegistry) =>
                   /\ last.calls = <<[start |-> last.startTime, end |-> last.endTime]>>
                   /\ Len(last.responses) = 1
                   /\ last.responses[1].ok =>
                          last.status = "ok" /\ last.result = last.responses[1].candles)
    /\ [][(~klineDataDirectoryHandle /\ last'.op = "get") => files' = files]_vars

\* C17 witness: with shards in the directory but no handle set, a get over a
\* window that holds stored candles fetched the whole window and returned the
\* source's candles.
C17_Witness ==
    /\ ~klineDataDirectoryHandle
    /\ last.op = "get" /\ last.status = "ok" /\ last.result # <<>>
    /\ last.calls = <<[start |-> last.startTime, end |-> last.endTime]>>
    /\ \E n \in DOMAIN files : \E i \in DOMAIN files[n].candles :
          /\ files[n].candles[i].time >= last.startTime
          /\ files[n].candles[i].time <= last.endTime

----------------------------------------------------------------------------
(* Properties of ids that resolve to no source *)

\* the last call's id has fewer than two segments
LastIdMalformed == Len(last.dataSourceId) < 2

\* the last call's id has two segments and names a source that is not registered
LastIdUnknown ==
    Len(last.dataSourceId) >= 2 /\ last.dataSourceId[1] \notin dataSourceRegistry

\* C18: a get with an id of fewer than two segments ends with the invalid-id
\* error and a get with an id of an unregistered source ends with the
\* unknown-source error; neither makes a request, neither changes a file.
C18_BadIdFailsWithoutRequest ==
    /\ []((last.op = "get" /\ LastIdMalformed) =>
            last.status = "error" /\ last.error = "InvalidIdFormat" /\ last.calls = <<>>)
    /\ []((last.op = "get" /\ LastIdUnknown) =>
            last.status = "error" /\ last.error = "UnknownSource" /\ last.calls = <<>>)
    /\ [][(last'.op = "get" /\ (LastIdMalformed' \/ LastIdUnknown')) => files' = files]_vars

\* C18 witness: with a directory that holds shards of a registered source, a
\* get with an id of an unregistered source failed.
C18_Witness ==
    /\ klineDataDirectoryHandle /\ files # <<>>
    /\ last.op = "get" /\ LastIdUnknown
    /\ last.status = "error" /\ last.error = "UnknownSource"

----------------------------------------------------------------------------
(* Properties of a failed fetch over an empty store *)

\* no shard of the years of [startTime, endTime] holds a candle
HoldsNoCandles(fs, timeframe, dataSourceId, startTime, endTime) ==
    \A y \in getYearFromTimestamp(startTime)..getYearFromTimestamp(endTime) :
        \/ getFilename(timeframe, y, dataSourceId) \notin DOMAIN fs
        \/ fs[getFilename(timeframe, y, dataSourceId)].candles = <<>>

\* C19: a get of a registered source over years of which the store holds no
\* candle, whose one request for the whole window fails, ends with the
\* source's error and leaves every file as it was.
C19_FailedFetchOnEmptyStorePropagates ==
    [][(/\ last'.op = "get"
        /\ last'.dataSourceId \in DataSourceIds
        /\ HoldsNoCandles(files, last'.timeframe, last'.dataSourceId, last'.startTime,
                          last'.endTime)
        /\ last'.responses = <<FetchFailed>>)
       => /\ last'.status = "error"
          /\ last'.error = "RemoteApiError"
          /\ last'.result = <<>>
          /\ last'.calls = <<[start |-> last'.startTime, end |-> last'.endTime]>>
          /\ files' = files]_vars

\* C19 witness: the directory holds a shard of another year only, and the get
\* whose whole-window request failed ended with the error.
C19_Witness ==
    /\ klineDataDirectoryHandle /\ files # <<>>
    /\ last.op = "get" /\ last.dataSourceId \in DataSourceIds
    /\ HoldsNoCandles(files, last.timeframe, last.dataSourceId, last.startTime, last.endTime)
    /\ last.responses = <<FetchFailed>>
    /\ last.status = "error" /\ last.error = "RemoteApiError"

----------------------------------------------------------------------------
(* Properties of updateLatestData *)

\* C20: updateLatestData always completes normally: with an id of fewer than
\* two segments, with a source other than binance, when the request fails and
\* when a shard write fails, the error is logged and the caller sees none.
C20_UpdateLatestNeverThrows ==
    last.op = "updateLatest" =>
        /\ last.status = "ok"
        /\ Len(last.dataSourceId) < 2 => last.error = "InvalidIdFormat"
        /\ (Len(last.dataSourceId) >= 2 /\ last.dataSourceId[1] # "binance") =>
               last.error = ""
        /\ last.error \in {"", "InvalidIdFormat", "RemoteApiError", "WriteFailed"}

\* C20 witness: an updateLatestData whose shard write was rejected completed
\* normally.
C20_Witness ==
    /\ last.op = "updateLatest" /\ klineDataDirectoryHandle
    /\ last.error = "WriteFailed" /\ last.status = "ok"

----------------------------------------------------------------------------
(* Properties of clearCache *)

\* C21: after clearCache(timeframe) on a configured directory no shard of that
\* timeframe for a year of 2000..2100 exists under any data-source id, so that
\* every read of the timeframe returns null; the files of the other
\* timeframes are as they were.
C21_ClearCacheRemovesShards ==
    [][(last'.op = "clearCache" /\ klineDataDirectoryHandle) =>
          /\ \A id \in DataSourceIds, y \in 2000..2100 :
                 getFilename(last'.timeframe, y, id) \notin DOMAIN files'
          /\ \A id \in DataSourceIds, w \in RecentWindows :
                 readKlineDataFromFile(files', klineDataDirectoryHandle, nowYear,
                                       last'.timeframe, w[1], w[2], id) = NullData
          /\ \A n \in DOMAIN files :
                 n[2] # last'.timeframe => (n \in DOMAIN files' /\ files'[n] = files[n])]_vars

----------------------------------------------------------------------------
(* Properties of data-source ids *)

\* a text without the delimiter
NoDash(text) == \A i \in DOMAIN text : text[i] # "-"

\* C22: parsing the id built from a source and a symbol that hold no '-'
\* gives that source and that symbol back, and parseDataSourceId throws the
\* invalid-id error exactly when its id holds no '-' (fewer than two segments).
C22_BuildParseRoundTrip ==
    last.op = "parseDataSourceId" =>
        /\ (last.path = "roundtrip" /\ NoDash(last.source) /\ NoDash(last.symbol)) =>
               last.status = "ok" /\ last.result = <<last.source, last.symbol>>
        /\ (last.status = "error" /\ last.error = "InvalidIdFormat") <=> NoDash(last.id)

----------------------------------------------------------------------------
(* Properties of calls in flight for different keys *)

\* both calls have returned or thrown
BothDone == inflight.calls[1].pc = "done" /\ inflight.calls[2].pc = "done"

\* C23: when two calls for different keys, interleaved at their awaits, have both
\* ended, every file either of them read or wrote is a shard of its own key, and
\* the directory is the one that results from running the first call alone and
\* then the second, and also the second and then the first.
C23_DifferentKeysNeverRace ==
    (inflight # <<>> /\ BothDone) =>
        /\ \A p \in {1, 2} : \A n \in inflight.calls[p].touched :
              /\ Len(n) = 4
              /\ n[2] = inflight.calls[p].timeframe
              /\ n[3] = inflight.calls[p].dataSourceId
        /\ files = ranAlone(ranAlone(inflight.store0, nowYear, inflight.calls[1]),
                            nowYear, inflight.calls[2])
        /\ files = ranAlone(ranAlone(inflight.store0, nowYear, inflight.calls[2]),
                            nowYear, inflight.calls[1])

\* C23 witness: both calls ended after each resumed while the other was between
\* two of its awaits, and each of them wrote a shard of its key.
C23_Witness ==
    /\ inflight # <<>> /\ BothDone /\ inflight.overlapped
    /\ \A p \in {1, 2} :
          /\ inflight.calls[p].status = "ok"
          /\ inflight.calls[p].toWrite # <<>>
          /\ \E n \in inflight.calls[p].touched :
                n \notin DOMAIN inflight.store0 \/ files[n] # inflight.store0[n]

----------------------------------------------------------------------------
(* Properties of the pages of one fetchKlineData call *)

\* the last page received
PreviousPage == last.allCandles[Len(last.allCandles)]

\* C24: every request of a call asks for [cursor, min(cursor + 1000 * period,
\* end)], the cursor being the call's start at first and afterwards the last
\* received candle's time plus one period; a request after the first follows
\* only a page of 1000 candles whose last time and whose next cursor are below
\* end, with fewer than 10 requests made; the pages are appended in the order of
\* the requests and returned as they are; a call with start >= end makes no
\* request and returns nothing.
C24_PagesFollowTheCursor ==
    /\ [][(last.op = "fetchKlineData.loop" /\ last'.requestCount # last.requestCount) =>
             /\ last'.requestCount = last.requestCount + 1
             /\ last.requestCount < 10
             /\ last.currentStartTime < last.endTime
             /\ last'.calls = Append(last.calls,
                    [start |-> last.currentStartTime,
                     end   |-> IF last.currentStartTime + 1000 * DaySeconds < last.endTime
                               THEN last.currentStartTime + 1000 * DaySeconds
                               ELSE last.endTime])
             /\ last.requestCount = 0 => last.currentStartTime = last.startTime
             /\ last.requestCount > 0 =>
                   /\ Len(last.allCandles) = last.requestCount
                   /\ PreviousPage.count = 1000
                   /\ PreviousPage.firstTime + 999 * DaySeconds < last.endTime
                   /\ last.currentStartTime = PreviousPage.firstTime + 1000 * DaySeconds
             /\ \/ last'.allCandles = last.allCandles
                \/ /\ Len(last'.allCandles) = Len(last.allCandles) + 1
                   /\ SubSeq(last'.allCandles, 1, Len(last.allCandles)) = last.allCandles]_vars
    /\ []((last.op = "fetchKlineData" /\ last.status = "ok") =>
             last.result = last.allCandles)
    /\ []((last.op = "fetchKlineData" /\ last.startTime >= last.endTime) =>
             last.status = "ok" /\ last.calls = <<>> /\ last.result = <<>>)

\* C24 witness: a call returned two pages after two requests, the second for the
\* window that starts one period after the first page's last candle.
C24_Witness ==
    /\ last.op = "fetchKlineData" /\ last.status = "ok"
    /\ Len(last.calls) = 2 /\ Len(last.result) = 2
    /\ last.calls[2].start = last.result[1].firstTime + 1000 * DaySeconds

----------------------------------------------------------------------------
(* Properties of gap fetches that bring nothing *)

\* every response the call received is a success without candles
AllFetchesEmpty(call) ==
    /\ call.responses # <<>>
    /\ \A i \in DOMAIN call.responses : call.responses[i] = FetchOk(<<>>)

\* C25: a get that found stored candles, asked the source for the missing ranges
\* and received no candle from any request changes no file and returns, without
\* failing, the candles it had read, filtered to [startTime, endTime].
C25_EmptyGapFetchesReturnStored ==
    [][(/\ last'.op = "get"
        /\ readKlineDataFromFile(files, klineDataDirectoryHandle, nowYear,
                                 last'.timeframe, last'.startTime, last'.endTime,
                                 last'.dataSourceId).candles # <<>>
        /\ AllFetchesEmpty(last'))
       => /\ last'.status = "ok"
          /\ files' = files
          /\ last'.result =
                SelectSeq(readKlineDataFromFile(files, klineDataDirectoryHandle, nowYear,
                                                last'.timeframe, last'.startTime,
                                                last'.endTime, last'.dataSourceId).candles,
                          LAMBDA c : last'.startTime <= c.time /\ c.time <= last'.endTime)]_vars

\* C25 witness: a get whose gap requests all came back empty returned the stored
\* candles of its window.
C25_Witness ==
    /\ last.op = "get" /\ last.path = "stale" /\ last.status = "ok"
    /\ AllFetchesEmpty(last) /\ Len(last.calls) = Len(last.responses)
    /\ last.result # <<>>
    /\ last.result =
          SelectSeq(readKlineDataFromFile(files, klineDataDirectoryHandle, nowYear,
                                          last.timeframe, last.startTime, last.endTime,
                                          last.dataSourceId).candles,
                    LAMBDA c : last.startTime <= c.time /\ c.time <= last.endTime)

----------------------------------------------------------------------------
(* Properties of the legacy single file *)

\* the year shards a read consults that exist
RequestShards == WindowShardNames \cap DOMAIN files

\* C26: a read for which a year shard exists returns the candles of the year
\* shards, not those of kline_{timeframe}.json; and write, merge, get and
\* updateLatest leave kline_{timeframe}.json as it is, or absent.
C26_LegacyFileIsReadOnlyFallback ==
    /\ []((last.op = "read" /\ klineDataDirectoryHandle /\ RequestShards # {}) =>
             last.result = SortByTime(CandleMapValues(
                               readYears(files, last.timeframe,
                                         YearSpan(CHOOSE y \in WindowShardYears :
                                                      \A z \in WindowShardYears : y <= z,
                                                  CHOOSE y \in WindowShardYears :
                                                      \A z \in WindowShardYears : z <= y),
                                         last.dataSourceId))))
    /\ [][last'.op \in {"write", "merge", "get", "updateLatest"} =>
             \A tf \in Timeframes :
                /\ oldFilename(tf) \in DOMAIN files' <=> oldFilename(tf) \in DOMAIN files
                /\ oldFilename(tf) \in DOMAIN files =>
                      files'[oldFilename(tf)] = files[oldFilename(tf)]]_vars

----------------------------------------------------------------------------
(* Properties of a coverage reported as sufficient *)

\* C27: when the coverage check reports no gap, the window holds no stretch
\* longer than two periods without a known candle: the first known time in the
\* window is at most two periods after start, the last at most two periods
\* before end, and consecutive known times in the window are at most two
\* periods apart (a window without any known time is at most two periods long).
C27_SufficientMeansNoLongStretch ==
    (last.op = "checkDataCoverage" /\ ~last.hasGaps) =>
        IF KnownInWindow = {}
        THEN last.endTime - last.startTime <= 2 * CoveragePeriod
        ELSE /\ \E t \in KnownInWindow : t - last.startTime <= 2 * CoveragePeriod
             /\ \E t \in KnownInWindow : last.endTime - t <= 2 * CoveragePeriod
             /\ \A p \in ConsecutiveInWindow : p[2] - p[1] <= 2 * CoveragePeriod

----------------------------------------------------------------------------
(* Properties of a get that fails *)

\* C28: a getKlineData call that ends in an error leaves every file as it was.
C28_FailedGetChangesNoShard ==
    [][(last'.op = "get" /\ last'.status = "error") => files' = files]_vars

----------------------------------------------------------------------------
(* Properties of the list getKlineData returns *)

\* C29: the list a successful getKlineData call returns is ascending by time and
\* holds no time twice, whichever path returned it.
C29_ResultSortedAndUnique ==
    (last.op = "get" /\ last.status = "ok") =>
        /\ \A i \in 1..(Len(last.result) - 1) : last.result[i].time < last.result[i + 1].time

----------------------------------------------------------------------------
(* The useKlineData hook: every run of its effect starts one getKlineData call,
   and the calls settle in any order. inflight holds the hook's state, the
   effects run so far and the index of the effect whose call settled last. *)

\* how often the effect runs in one behaviour
MaxEffects == 3

\* timeRange: null, or a range
NullRange == [given |-> FALSE, startTime |-> Undefined, endTime |-> Undefined]

HookRanges ==
    {NullRange} \cup {[given |-> TRUE, startTime |-> w[1], endTime |-> w[2]] : w \in PairWindows}

\* noteConfig: null, or a source and a symbol
NullConfig == [given |-> FALSE, source |-> "", symbol |-> ""]

HookConfigs ==
    {NullConfig} \cup {[given |-> TRUE, source |-> s, symbol |-> "btc"] : s \in {"binance", "kraken"}}

INITIAL_STATE == [candles |-> <<>>, isLoading |-> TRUE, lastUpdated |-> Undefined]

\* buildDataSourceId(noteConfig.source, noteConfig.symbol), as the segments of the id
hookDataSourceId(noteConfig) == <<noteConfig.source, noteConfig.symbol>>

\* the cleanup of the effect that ran before: isMounted = false
cleanup(effects) ==
    IF effects = <<>> THEN effects
    ELSE [effects EXCEPT ![Len(effects)] = [@ EXCEPT !.isMounted = FALSE]]

\* loadData up to its await: it returns at once without a range or a config
loadData(timeframe, timeRange, noteConfig) ==
    [timeframe |-> timeframe, timeRange |-> timeRange, noteConfig |-> noteConfig,
     isMounted |-> TRUE, pending |-> timeRange.given /\ noteConfig.given,
     outcome |-> IF timeRange.given /\ noteConfig.given THEN "pending" ELSE "none",
     candles |-> <<>>]

\* the state after the effect's synchronous part
effectState(state, timeRange, noteConfig) ==
    IF timeRange.given /\ noteConfig.given
    THEN [state EXCEPT !.isLoading = TRUE]
    ELSE [candles |-> <<>>, isLoading |-> FALSE, lastUpdated |-> Undefined]

\* the state after loadData resumes from its await with result r of getKlineData:
\* a rejection leaves loadData (nothing catches it), an unmounted effect returns
settledState(state, effect, r, now) ==
    IF r.status = "ok" /\ effect.isMounted
    THEN [candles |-> r.result, isLoading |-> FALSE, lastUpdated |-> now]
    ELSE state

InitHook ==
    /\ klineDataDirectoryHandle = TRUE
    /\ files = <<>>
    /\ nowYear \in NowYears
    /\ inflight = [state |-> INITIAL_STATE, effects |-> <<>>, settled |-> 0]
    /\ last = NoCall

\* the dependencies changed (or the component mounted): cleanup, then the effect
HookEffect(timeframe, timeRange, noteConfig) ==
    /\ Len(inflight.effects) < MaxEffects
    /\ inflight' = [inflight EXCEPT
                        !.effects = Append(cleanup(@), loadData(timeframe, timeRange, noteConfig)),
                        !.state = effectState(@, timeRange, noteConfig)]
    /\ last' = [NoCall EXCEPT !.op = "useEffect"]
    /\ UNCHANGED <<klineDataDirectoryHandle, files, nowYear>>

\* the getKlineData call of effect i settles
HookSettle(i) ==
    /\ i \in DOMAIN inflight.effects
    /\ inflight.effects[i].pending
    /\ \E responses \in [1..fetchesNeeded(files, klineDataDirectoryHandle, nowYear,
                                          inflight.effects[i].timeframe,
                                          inflight.effects[i].timeRange.startTime,
                                          inflight.effects[i].timeRange.endTime,
                                          hookDataSourceId(inflight.effects[i].noteConfig))
                         -> PairResponses] :
        \E r \in {getKlineData(files, klineDataDirectoryHandle, nowYear,
                               inflight.effects[i].timeframe,
                               inflight.effects[i].timeRange.startTime,
                               inflight.effects[i].timeRange.endTime,
                               hookDataSourceId(inflight.effects[i].noteConfig),
                               responses, NoFailedYears)} :
            /\ files' = r.files
            /\ inflight' = [inflight EXCEPT
                                !.effects[i] = [@ EXCEPT !.pending = FALSE, !.outcome = r.status,
                                                         !.candles = r.result],
                                !.state = settledState(@, inflight.effects[i], r, nowYear),
                                !.settled = i]
            /\ last' = [NoCall EXCEPT !.op = "get",
                            !.timeframe = inflight.effects[i].timeframe,
                            !.dataSourceId = hookDataSourceId(inflight.effects[i].noteConfig),
                            !.startTime = inflight.effects[i].timeRange.startTime,
                            !.endTime = inflight.effects[i].timeRange.endTime,
                            !.status = r.status, !.result = r.result, !.calls = r.calls,
                            !.path = r.path, !.error = r.error,
                            !.responses = SubSeq(responses, 1, Len(r.calls))]
            /\ UNCHANGED <<klineDataDirectoryHandle, nowYear>>

NextHook ==
    \/ \E tf \in Timeframes, range \in HookRanges, config \in HookConfigs :
            HookEffect(tf, range, config)
    \/ \E i \in 1..MaxEffects : HookSettle(i)

SpecHook == InitHook /\ [][NextHook]_vars

\* every getKlineData call the hook started has settled
AllSettled ==
    /\ inflight.effects # <<>>
    /\ \A i \in DOMAIN inflight.effects : ~inflight.effects[i].pending

\* C30: the result of a get whose effect was cleaned up is never written into the
\* hook's state, and once every get has settled the state is not loading and,
\* unless the most recent get failed, holds the candles of the most recent request.
C30_HookShowsMostRecentRequest ==
    /\ [](AllSettled =>
            /\ ~inflight.state.isLoading
            /\ inflight.effects[Len(inflight.effects)].outcome # "error"
                   => inflight.state.candles = inflight.effects[Len(inflight.effects)].candles)
    /\ [][(last'.op = "get" /\ ~inflight.effects[inflight'.settled].isMounted)
              => inflight'.state = inflight.state]_vars

====
